---- MODULE Spec2Model ----
(***************************************************************************)
(* Model of the di_rn service registry (the get/initialize/reset singleton *)
(* handles of every capability domain) and of initializeRNApp.             *)
(***************************************************************************)
EXTENDS Integers, Sequences, FiniteSets, TLC

\* ------------------------------------------------------------------ bounds
MaxInst == 2        \* instances of one class constructed after module load
MaxDispose == 1     \* dispose() calls counted per instance
MaxRuns == 2        \* calls of initializeRNApp
MaxSeq == 2         \* insertions into one listener set
MaxTokens == 2      \* unsubscribe functions returned by one service
MaxChanges == 2     \* state changes of one observable service
MaxDepth == 2       \* notifications in progress, one inside the other

\* -------------------------------------------------------- program constants
MaxStorageOps == 3
MaxShows == 3  \* storage operations called
MaxClock == 2       \* milliseconds that pass
MaxRequests == 2    \* calls of RNNetworkClient.request
MaxLazyCalls == 3   \* operations called through the lazy resolvers
MaxCalls == 3       \* show / dismiss calls on the banner service
MaxNow == 150       \* the clock value up to which time passes in small steps
DefaultDismissMs == 4000

Domains ==
  {"theme", "network", "networkClient", "storage", "navigation",
   "notification", "logger", "analyticsClient", "info", "analytics"}

\* classes whose module also exports a pre-instantiated instance (rnThemeService, ...)
Exported ==
  {"theme", "network", "networkClient", "navigation", "notification",
   "logger", "analyticsClient"}

\* classes with a dispose() method
Disposable == {"theme", "network"}

\* classes with a listener set
Observable == {"theme", "network", "navigation", "info"}

Inst == 1..(MaxInst + 1)
\* the pre-instantiated export of a class (rnThemeService, rnNetworkService, ...)
ExportId == MaxInst + 1
Listeners == {"cb"}   \* listener callbacks client code subscribes
Causes == {"e1", "e2"}  \* errors an external call can throw
ThemeMode == {"light", "dark", "system"}
NoInterval == -1
Intervals == {NoInterval, 0, 100}

VARIABLES
  domain,            \* the capability domain the client code exercises
  handle,            \* the module-level singleton variable of each domain (0 = null)
  nextId,            \* number of instances of each class constructed after load
  disposeCount,      \* dispose() calls received by each theme / network instance
  diInfoService,     \* instance last passed to initializeDiInfoService (0 = never)
  listeners,         \* this.listeners of each observable instance
  native,            \* appearanceListener / unsubscribe is non-null
  initialized,       \* RNThemeService.initialized
  currentTheme,      \* RNThemeService.currentTheme
  isOnlineState,     \* RNNetworkService.isOnlineState
  fetchPending,      \* the constructor's NetInfo.fetch() promise has not settled
  isVisible,         \* RNInfoService.state.isVisible
  dismissTimeoutId,  \* RNInfoService.dismissTimeoutId is a pending timer
  appearanceAvailable, \* require('react-native').Appearance resolves
  everHeld,          \* history: instances a handle has held
  stale,             \* history: <<d, i, l>> registered on i when reset dropped i
  last,              \* history: the last operation, its result and statement order
  runNo,             \* number of initializeRNApp calls started
  pc,                \* where the current call of initializeRNApp stands
  options,           \* its options argument
  steps,             \* history: the status of each of its steps
  analytics,         \* its local const analytics
  outcome,           \* what its promise delivers to the caller
  consoleErrors,     \* the console.error messages it has logged
  prev,              \* history: how the previous call ended
  thrown,            \* history: the call that threw out of the current run
  firebaseService,   \* @sudobility/di: initializeFirebaseService has succeeded
  firebaseAuth,      \* auth_lib: initializeFirebaseAuth has succeeded
  diNetworkService,  \* @sudobility/di: the network service last installed
  subscription,      \* subscription_lib: initializeSubscription has succeeded
  i18nCalls,         \* calls of the caller's initializeI18n hook
  entries,           \* one service's Set of listeners: callback -> insertion rank
  seqNo,             \* insertions into that Set so far
  version,           \* the service's current state (counted by its changes)
  tokens,            \* the unsubscribe functions returned: the callback each closes over
  active,            \* history: tokens returned and not called yet
  stack,             \* the listeners.forEach loops in progress, innermost first
  note,              \* history: the last subscribe, token call or finished loop
  banner,            \* one RNInfoService: this.state
  timerId,           \* its this.dismissTimeoutId (0 = null)
  timers,            \* the runtime's pending setTimeout timers
  timerSeq,          \* timers created so far
  now,               \* the clock, in milliseconds
  frames,            \* its show / dismiss calls that are notifying, innermost first
  callNo,            \* show and dismiss calls made by client code so far
  shown,             \* history: the most recent show call
  hides,             \* history: notifications of isVisible = false since that call
  subscribers,       \* its this.listeners
  act,               \* history: the last operation on it
  provides,          \* what require() of each optional native package yields
  cached,            \* the module variable of each lazy resolver is set
  requires,          \* require() attempts each resolver has made
  lazyCalls,         \* operations called that go through a resolver
  available,         \* history: resolvers that have returned their module
  lazyOp,            \* history: the last such operation and its outcome
  requests,          \* the calls of RNNetworkClient.request, in the order made
  backing,           \* AsyncStorage: the string stored under each key
  clockMs,           \* Date.now()
  storageOps,        \* storage operations called so far
  written,           \* history: the last AdvancedRNStorage.setItem of each key
  lastSet,           \* history: the value last set for each key and not removed
  storeOp,           \* history: the last storage operation and its result
  reported,          \* history: the NetInfo state each RNNetworkService last processed
  heard,             \* history: the value last delivered to a listener since it subscribed
  everHeard,         \* history: the value last delivered to a listener, ever
  colorScheme,       \* what Appearance.getColorScheme() returns
  channel,           \* one RNNotificationService: channelCreated and its createChannel call
  shows,             \* its showNotification calls, in the order made
  toast              \* one mounted InfoBanner: its React state, ref and Toast calls

regVars == <<handle, nextId, disposeCount, diInfoService, everHeld>>
instVars ==
  <<listeners, native, initialized, currentTheme, isOnlineState, fetchPending,
    isVisible, dismissTimeoutId>>
notifyVars == <<entries, seqNo, version, tokens, active, stack, note>>
bannerVars ==
  <<banner, timerId, timers, timerSeq, now, frames, callNo, shown, hides,
    subscribers, act>>
lazyVars == <<provides, cached, requires, lazyCalls, available, lazyOp>>
storageVars == <<backing, clockMs, storageOps, written, lastSet, storeOp>>
svcVars == <<reported, heard, everHeard, colorScheme, channel, shows, toast>>
envVars ==
  <<domain, appearanceAvailable, notifyVars, bannerVars, lazyVars, requests,
    storageVars, svcVars>>
runVars ==
  <<runNo, pc, options, steps, analytics, outcome, consoleErrors, prev, thrown>>
extVars == <<firebaseService, firebaseAuth, diNetworkService, subscription, i18nCalls>>
appVars == <<runVars, extVars>>
vars == <<regVars, instVars, envVars, stale, last, appVars>>

\* ----------------------------------------------------------------- helpers
Op(op, d, inst, ret, threw, trace, delivered) ==
  [op |-> op, dom |-> d, inst |-> inst, ret |-> ret, threw |-> threw,
   trace |-> trace, delivered |-> delivered]

NoOp == Op("load", "none", 0, 0, FALSE, <<>>, {})

Fresh(d) == nextId[d] + 1
CanConstruct(d) == nextId[d] < MaxInst
Constructed(d) == (1..nextId[d]) \cup (IF d \in Exported THEN {ExportId} ELSE {})
\* the instances client code has obtained from the handle of d
Obtained(d) == everHeld[d]

\* new RNNetworkService() starts monitoring in its constructor; no other
\* constructor touches a native module
NativeAfterNew(nat, d, n) ==
  IF d = "network" THEN [nat EXCEPT ![d][n] = TRUE] ELSE nat
FetchAfterNew(fp, d, n) ==
  IF d = "network" THEN [fp EXCEPT ![n] = TRUE] ELSE fp

\* a dispose that leaves the listener set as it is
C4_KeepListeners(ls, d, i) == ls

\* a dispose that leaves the native subscription attached
C21_KeepNative(nat, d, i) == nat

\* dispose(): remove the native subscription, clear the listener set
NativeAfterDispose(nat, d, i) == [nat EXCEPT ![d][i] = FALSE]
ListenersAfterDispose(ls, d, i) == [ls EXCEPT ![d][i] = {}]
CountAfterDispose(dc, d, i) == [dc EXCEPT ![d][i] = @ + 1]
CanDispose(d, i) == disposeCount[d][i] < MaxDispose

\* pairs <<i, l>> for the listeners of instance i
Pairs(d, i) == {<<i, l>> : l \in listeners[d][i]}
StaleOf(d, i) == {<<d, i, l>> : l \in listeners[d][i]}

\* ---------------------------------------------------------------- initial
Callbacks == {"f", "g"}   \* callback functions client code passes to subscribe
NoNote == [op |-> "none"]

NotifyIdle ==
  /\ entries = [c \in Callbacks |-> 0]
  /\ seqNo = 0 /\ version = 0
  /\ tokens = << >> /\ active = {}
  /\ stack = << >> /\ note = NoNote

\* private state: BannerState = { isVisible: false, title: '', ... }
InitialBanner ==
  [isVisible |-> FALSE, title |-> "", description |-> "", variant |-> "info",
   duration |-> NoInterval]
NoShow == [no |-> 0, at |-> 0, after |-> 0, quiet |-> TRUE]
NoAct == [op |-> "none"]

BannerIdle ==
  /\ banner = InitialBanner
  /\ timerId = 0 /\ timers = {} /\ timerSeq = 0
  /\ now = 0
  /\ frames = << >> /\ callNo = 0
  /\ shown = NoShow /\ hides = 0
  /\ subscribers = {}
  /\ act = NoAct

\* storage keys, as the characters clearPattern's expression is matched against
Keys == {<<"a">>, <<"a", "b">>, <<"b", "a">>}
\* the ttl argument of setItem: undefined / null, a number of ms, Infinity
NoTtl == [kind |-> "none", ms |-> 0]
TtlArgs == {NoTtl, [kind |-> "finite", ms |-> 1], [kind |-> "infinite", ms |-> 0]}
\* no string is stored under the key
Absent == [kind |-> "absent", value |-> "", timestamp |-> 0, ttl |-> "undefined", ms |-> 0]
NoWrite == [kind |-> "none", value |-> "", at |-> 0, ttl |-> NoTtl]
NoValue == "<null>"
NoStoreOp == [op |-> "none"]

StorageIdle ==
  /\ backing = [k \in Keys |-> Absent]
  /\ clockMs = 0
  /\ storageOps = 0
  /\ written = [k \in Keys |-> NoWrite]
  /\ lastSet = [k \in Keys |-> NoValue]
  /\ storeOp = NoStoreOp

\* getAsyncStorage, getAppearance, getNetInfo, getNotifee, getToast
Resolvers == {"getAsyncStorage", "getAppearance", "getNetInfo", "getNotifee", "getToast"}
\* require() throws, or yields a module without / with the export the resolver reads
Provided == {"throws", "empty", "module"}
NoRes == [op |-> "none"]
\* every optional package is installed and linked
Linked == [r \in Resolvers |-> "module"]

\* let XModule = null, at load
LazyIdle ==
  /\ cached = [r \in Resolvers |-> FALSE]
  /\ requires = [r \in Resolvers |-> 0]
  /\ lazyCalls = 0
  /\ available = {}
  /\ lazyOp = NoRes

\* an InfoBanner mounted on the initial state: useState(service.getState()),
\* useRef(null), and its effect has run without calling Toast
Mounted ==
  [state |-> InitialBanner, ref |-> << >>, pending |-> FALSE,
   expect |-> "none", called |-> "none"]
NoChannel == [channelCreated |-> FALSE, attempts |-> 0, createChannel |-> "none"]
NoReport == [isConnected |-> "none", isInternetReachable |-> "none"]
NotHeard == "none"
SvcIdle ==
  /\ reported = [i \in Inst |-> NoReport]
  /\ heard = [i \in Inst |-> [l \in Listeners |-> NotHeard]]
  /\ everHeard = [i \in Inst |-> [l \in Listeners |-> NotHeard]]
  /\ colorScheme = "null"
  /\ channel = NoChannel
  /\ shows = << >>
  /\ toast = Mounted

RegInit ==
  /\ SvcIdle
  /\ NotifyIdle
  /\ BannerIdle
  /\ LazyIdle
  /\ requests = << >>
  /\ StorageIdle
  /\ handle = [d \in Domains |-> 0]
  /\ nextId = [d \in Domains |-> 0]
  /\ disposeCount = [d \in Disposable |-> [i \in Inst |-> 0]]
  /\ diInfoService = 0
  /\ everHeld = [d \in Domains |-> {}]
  /\ listeners = [d \in Observable |-> [i \in Inst |-> {}]]
  /\ native = [d \in Disposable |-> [i \in Inst |-> d = "network" /\ i = ExportId]]
  /\ initialized = [i \in Inst |-> FALSE]
  /\ currentTheme = [i \in Inst |-> "system"]
  /\ isOnlineState = [i \in Inst |-> TRUE]
  /\ fetchPending = [i \in Inst |-> i = ExportId]
  /\ isVisible = [i \in Inst |-> FALSE]
  /\ dismissTimeoutId = [i \in Inst |-> FALSE]
  /\ stale = {}
  /\ last = NoOp


\* ------------------------------------------------- the registry's handlers
\* The effect of one handler on handle d: `disp` (0 = none) is the instance
\* whose dispose() it calls, `new` tells whether it constructs an instance,
\* `h` is the value it leaves in the singleton variable.
Effect(d, disp, new, h) ==
  /\ new => CanConstruct(d)
  /\ disp # 0 => CanDispose(d, disp)
  /\ nextId' = IF new THEN [nextId EXCEPT ![d] = @ + 1] ELSE nextId
  /\ handle' = [handle EXCEPT ![d] = h]
  /\ everHeld' = IF h # 0 THEN [everHeld EXCEPT ![d] = @ \cup {h}] ELSE everHeld
  /\ disposeCount' =
       IF disp # 0 THEN CountAfterDispose(disposeCount, d, disp) ELSE disposeCount
  /\ listeners' =
       IF disp # 0 THEN ListenersAfterDispose(listeners, d, disp) ELSE listeners
  /\ native' =
       LET a == IF disp # 0 THEN NativeAfterDispose(native, d, disp) ELSE native
       IN  IF new THEN NativeAfterNew(a, d, Fresh(d)) ELSE a
  /\ fetchPending' =
       IF new THEN FetchAfterNew(fetchPending, d, Fresh(d)) ELSE fetchPending
  /\ UNCHANGED <<initialized, currentTheme, isOnlineState, isVisible,
                 dismissTimeoutId>>

NewTrace(new, h) == IF new THEN << <<"new", h>> >> ELSE << >>
DisposeTrace(disp) == IF disp # 0 THEN << <<"dispose", disp>> >> ELSE << >>

\* a get that constructs on every call
C6_AlwaysCreate(d) ==
  /\ Effect(d, 0, TRUE, Fresh(d))
  /\ UNCHANGED <<diInfoService, stale>>
  /\ last' = Op("get", d, 0, Fresh(d), FALSE,
                << <<"new", Fresh(d)>>, <<"assign", Fresh(d)>> >>, {})

\* if (!x) { x = new X(); } return x;
GetOrCreate(d) ==
  LET new == handle[d] = 0
      h == IF new THEN Fresh(d) ELSE handle[d]
  IN  /\ Effect(d, 0, new, h)
      /\ UNCHANGED <<diInfoService, stale>>
      /\ last' = Op("get", d, 0, h, FALSE,
                    IF new THEN << <<"new", h>>, <<"assign", h>> >> ELSE << >>, {})

\* an initialize that keeps an instance already installed
C3_KeepExisting(d, service) ==
  LET keep == handle[d] # 0
      new == ~keep /\ service = 0
      h == IF keep THEN handle[d] ELSE IF new THEN Fresh(d) ELSE service
  IN  /\ Effect(d, 0, new, h)
      /\ UNCHANGED <<diInfoService, stale>>
      /\ last' = Op("initialize", d, service, h, FALSE,
                    IF keep THEN << >>
                    ELSE NewTrace(new, h) \o << <<"assign", h>> >>, {})

\* x = service ?? new X(); return x;
ReplaceInitialize(d, service) ==
  LET new == service = 0
      h == IF new THEN Fresh(d) ELSE service
  IN  /\ Effect(d, 0, new, h)
      /\ UNCHANGED <<diInfoService, stale>>
      /\ last' = Op("initialize", d, service, h, FALSE,
                    NewTrace(new, h) \o << <<"assign", h>> >>, {})

\* x = new X(arg); return x;
RebuildInitialize(d) ==
  /\ Effect(d, 0, TRUE, Fresh(d))
  /\ UNCHANGED <<diInfoService, stale>>
  /\ last' = Op("initialize", d, 0, Fresh(d), FALSE,
                << <<"new", Fresh(d)>>, <<"assign", Fresh(d)>> >>, {})

\* an initialize that replaces without disposing
C1_InitializeWithoutDispose(d, service) == ReplaceInitialize(d, service)

\* an initialize that assigns first and then disposes what the variable holds
C2_ReplaceThenDispose(d, service) ==
  LET new == service = 0
      h == IF new THEN Fresh(d) ELSE service
  IN  /\ Effect(d, IF handle[d] # 0 THEN h ELSE 0, new, h)
      /\ UNCHANGED <<diInfoService, stale>>
      /\ last' = Op("initialize", d, service, h, FALSE,
                    NewTrace(new, h) \o << <<"assign", h>> >>
                      \o (IF handle[d] # 0 THEN << <<"dispose", h>> >> ELSE << >>),
                    {})

\* if (x) { x.dispose(); } x = service ?? new X(); return x;
DisposeInitialize(d, service) ==
  LET old == handle[d]
      new == service = 0
      h == IF new THEN Fresh(d) ELSE service
  IN  /\ Effect(d, old, new, h)
      /\ UNCHANGED <<diInfoService, stale>>
      /\ last' = Op("initialize", d, service, h, FALSE,
                    DisposeTrace(old) \o NewTrace(new, h) \o << <<"assign", h>> >>,
                    {})

\* x = null;
DropReset(d) ==
  /\ Effect(d, 0, FALSE, 0)
  /\ UNCHANGED diInfoService
  /\ stale' = IF handle[d] # 0 /\ d \in Observable
              THEN stale \cup StaleOf(d, handle[d]) ELSE stale
  /\ last' = Op("reset", d, 0, 0, FALSE,
                IF handle[d] # 0 THEN << <<"assign", 0>> >> ELSE << >>, {})

\* a reset that drops the instance without disposing it
C5_ResetWithoutDispose(d) == DropReset(d)

\* if (x) { x.dispose(); x = null; }
DisposeReset(d) ==
  LET old == handle[d]
  IN  /\ Effect(d, old, FALSE, 0)
      /\ UNCHANGED diInfoService
      /\ stale' = IF old # 0 THEN stale \cup StaleOf(d, old) ELSE stale
      /\ last' = Op("reset", d, 0, 0, FALSE,
                    IF old # 0 THEN << <<"dispose", old>>, <<"assign", 0>> >>
                    ELSE << >>, {})

\* client code: new X()
NewInstance ==
  /\ domain \in Domains \ {"analytics"}
  /\ UNCHANGED <<envVars, appVars>>
  /\ Effect(domain, 0, TRUE, handle[domain])
  /\ UNCHANGED <<diInfoService, stale>>
  /\ last' = Op("new", domain, 0, Fresh(domain), FALSE,
                << <<"new", Fresh(domain)>> >>, {})

Args(d) == {0} \cup Constructed(d)

\* client code exercising domain d: nothing of initializeRNApp runs
Client(d) == domain = d /\ UNCHANGED <<envVars, appVars>>

getThemeService == Client("theme") /\ GetOrCreate("theme")
initializeThemeService ==
  Client("theme") /\ \E service \in Args("theme") : DisposeInitialize("theme", service)
resetThemeService == Client("theme") /\ DisposeReset("theme")

getNetworkService == Client("network") /\ GetOrCreate("network")
initializeNetworkService ==
  Client("network")
  /\ \E service \in Args("network") : DisposeInitialize("network", service)
resetNetworkService == Client("network") /\ DisposeReset("network")

getNetworkClient == Client("networkClient") /\ GetOrCreate("networkClient")
initializeNetworkClient == Client("networkClient") /\ RebuildInitialize("networkClient")
resetNetworkClient == Client("networkClient") /\ DropReset("networkClient")

getStorageService == Client("storage") /\ GetOrCreate("storage")
initializeStorageService ==
  Client("storage")
  /\ \E service \in Args("storage") : ReplaceInitialize("storage", service)
resetStorageService == Client("storage") /\ DropReset("storage")

getNavigationService == Client("navigation") /\ GetOrCreate("navigation")
initializeNavigationService ==
  Client("navigation")
  /\ \E service \in Args("navigation") : ReplaceInitialize("navigation", service)
resetNavigationService == Client("navigation") /\ DropReset("navigation")

getNotificationService == Client("notification") /\ GetOrCreate("notification")
initializeNotificationService ==
  Client("notification")
  /\ \E service \in Args("notification") :
       ReplaceInitialize("notification", service)
resetNotificationService == Client("notification") /\ DropReset("notification")

getLoggerProvider == Client("logger") /\ GetOrCreate("logger")
initializeLoggerProvider == Client("logger") /\ RebuildInitialize("logger")
resetLoggerProvider == Client("logger") /\ DropReset("logger")

getAnalyticsClient == Client("analyticsClient") /\ GetOrCreate("analyticsClient")
initializeAnalyticsClient ==
  Client("analyticsClient")
  /\ \E client \in Args("analyticsClient") :
       ReplaceInitialize("analyticsClient", client)
resetAnalyticsClient == Client("analyticsClient") /\ DropReset("analyticsClient")

\* an initializeInfoService that installs a new instance on every call
C39_InfoReplaces(service, diThrows) ==
  /\ Effect("info", 0, TRUE, Fresh("info"))
  /\ diInfoService' = Fresh("info")
  /\ UNCHANGED stale
  /\ last' = Op("initialize", "info", service, 0, diThrows,
                << <<"new", Fresh("info")>>, <<"assign", Fresh("info")>> >>, {})

\* if (infoServiceInstance) return;
\* infoServiceInstance = service ?? new RNInfoService();
\* initializeDiInfoService(infoServiceInstance);   (external: returns or throws)
InfoInitialize(service, diThrows) ==
  LET new == service = 0
      h == IF new THEN Fresh("info") ELSE service
  IN  IF handle["info"] # 0
      THEN /\ ~diThrows
           /\ UNCHANGED <<regVars, instVars, stale>>
           /\ last' = Op("initialize", "info", service, 0, FALSE, << >>, {})
      ELSE /\ Effect("info", 0, new, h)
           /\ diInfoService' = h
           /\ UNCHANGED stale
           /\ last' = Op("initialize", "info", service, 0, diThrows,
                         NewTrace(new, h) \o << <<"assign", h>>, <<"di", h>> >>, {})

initializeInfoService ==
  Client("info")
  /\ \E service \in Args("info"), diThrows \in BOOLEAN :
       InfoInitialize(service, diThrows)

\* a get that builds a default instead of throwing
C7_GetOrCreate(d) == GetOrCreate(d)

\* if (!x) throw new Error('... not initialized ...'); return x;
GetOrThrow(d) ==
  /\ UNCHANGED <<regVars, instVars, stale>>
  /\ last' = Op("get", d, 0, handle[d], handle[d] = 0, << >>, {})

getInfoService == Client("info") /\ GetOrThrow("info")
resetInfoService == Client("info") /\ DropReset("info")

\* if (!analyticsService) { analyticsService = new FirebaseAnalyticsService(); }
\* return analyticsService;
AnalyticsInitialize ==
  LET new == handle["analytics"] = 0
      h == IF new THEN Fresh("analytics") ELSE handle["analytics"]
  IN  /\ Effect("analytics", 0, new, h)
      /\ UNCHANGED <<diInfoService, stale>>
      /\ last' = Op("initialize", "analytics", 0, h, FALSE,
                    IF new THEN << <<"new", h>>, <<"assign", h>> >> ELSE << >>, {})

initializeFirebaseAnalytics == Client("analytics") /\ AnalyticsInitialize
getAnalyticsService == Client("analytics") /\ GetOrThrow("analytics")
resetAnalyticsService == Client("analytics") /\ DropReset("analytics")

HandleNext ==
  \/ getThemeService \/ initializeThemeService \/ resetThemeService
  \/ getNetworkService \/ initializeNetworkService \/ resetNetworkService
  \/ getNetworkClient \/ initializeNetworkClient \/ resetNetworkClient
  \/ getStorageService \/ initializeStorageService \/ resetStorageService
  \/ getNavigationService \/ initializeNavigationService \/ resetNavigationService
  \/ getNotificationService \/ initializeNotificationService
  \/ resetNotificationService
  \/ getLoggerProvider \/ initializeLoggerProvider \/ resetLoggerProvider
  \/ getAnalyticsClient \/ initializeAnalyticsClient \/ resetAnalyticsClient
  \/ initializeInfoService \/ getInfoService \/ resetInfoService
  \/ initializeFirebaseAnalytics \/ getAnalyticsService \/ resetAnalyticsService
  \/ NewInstance

\* ------------------------------------------- observable services' operations
Subscribed(d, i, l) ==
  /\ listeners' = [listeners EXCEPT ![d][i] = @ \cup {l}]
  /\ stale' = stale \ {<<d, i, l>>}

\* RNThemeService.watchSystemTheme: ensureInitialized(); listeners.add(callback)
watchSystemTheme ==
  /\ Client("theme")
  /\ \E i \in Obtained("theme"), l \in Listeners :
       /\ initialized' = [initialized EXCEPT ![i] = TRUE]
       /\ native' = IF ~initialized[i] /\ appearanceAvailable
                    THEN [native EXCEPT !["theme"][i] = TRUE] ELSE native
       /\ Subscribed("theme", i, l)
       /\ last' = Op("subscribe", "theme", i, 0, FALSE, << >>, {})
  /\ UNCHANGED <<regVars, currentTheme, isOnlineState, fetchPending, isVisible,
                 dismissTimeoutId, envVars, appVars>>

\* RNThemeService.applyTheme: currentTheme = theme; notifyListeners()
applyTheme ==
  /\ Client("theme")
  /\ \E i \in Obtained("theme"), theme \in ThemeMode :
       /\ currentTheme' = [currentTheme EXCEPT ![i] = theme]
       /\ last' = Op("applyTheme", "theme", i, 0, FALSE, << >>, Pairs("theme", i))
  /\ UNCHANGED <<regVars, listeners, native, initialized, isOnlineState,
                 fetchPending, isVisible, dismissTimeoutId, envVars, stale, appVars>>

\* the system appearance changes: every attached change listener runs
\*   if (this.currentTheme === 'system') this.notifyListeners()
AppearanceChange ==
  /\ Client("theme")
  /\ \E i \in Inst : native["theme"][i]
  /\ last' = Op("appearanceChange", "theme", 0, 0, FALSE, << >>,
                UNION {Pairs("theme", i) :
                         i \in {j \in Inst :
                                  native["theme"][j] /\ currentTheme[j] = "system"}})
  /\ UNCHANGED <<regVars, instVars, envVars, stale, appVars>>

\* RNNetworkService.watchNetworkStatus: listeners.add(callback)
watchNetworkStatus ==
  /\ Client("network")
  /\ \E i \in Obtained("network"), l \in Listeners :
       /\ Subscribed("network", i, l)
       /\ last' = Op("subscribe", "network", i, 0, FALSE, << >>, {})
  /\ UNCHANGED <<regVars, native, initialized, currentTheme, isOnlineState,
                 fetchPending, isVisible, dismissTimeoutId, envVars, appVars>>

Tri == {"true", "false", "null"}

\* state.isConnected === true && state.isInternetReachable !== false
IsOnline(isConnected, isInternetReachable) ==
  isConnected = "true" /\ isInternetReachable # "false"

\* the online values of all NetInfo states a report can carry
Reports == {IsOnline(c, r) : c \in Tri, r \in Tri}

\* updateOnlineState on every instance of I: store and notify only on a change
UpdateOnlineState(I, isOnline, op, inst) ==
  /\ isOnlineState' = [i \in Inst |-> IF i \in I THEN isOnline ELSE isOnlineState[i]]
  /\ last' = Op(op, "network", inst, 0, FALSE, << >>,
                UNION {Pairs("network", i) :
                         i \in {j \in I : isOnlineState[j] # isOnline}})

\* NetInfo reports a state to every subscribed event listener
NetInfoEvent ==
  /\ Client("network")
  /\ \E i \in Inst : native["network"][i]
  /\ \E isOnline \in Reports :
       UpdateOnlineState({i \in Inst : native["network"][i]},
                         isOnline, "netInfoEvent", 0)
  /\ UNCHANGED <<regVars, listeners, native, initialized, currentTheme,
                 fetchPending, isVisible, dismissTimeoutId, envVars, stale, appVars>>

\* the constructor's NetInfo.fetch() settles: .then(updateOnlineState) / .catch(noop)
FetchSettles ==
  /\ Client("network")
  /\ \E i \in Inst :
       /\ fetchPending[i]
       /\ fetchPending' = [fetchPending EXCEPT ![i] = FALSE]
       /\ \/ \E isOnline \in Reports :
               UpdateOnlineState({i}, isOnline, "fetchResolved", i)
          \/ /\ UNCHANGED isOnlineState
             /\ last' = Op("fetchRejected", "network", i, 0, FALSE, << >>, {})
  /\ UNCHANGED <<regVars, listeners, native, initialized, currentTheme,
                 isVisible, dismissTimeoutId, envVars, stale, appVars>>

\* RNNavigationService.addListener: listeners.add(listener)
addListener ==
  /\ Client("navigation")
  /\ \E i \in Obtained("navigation"), l \in Listeners :
       /\ Subscribed("navigation", i, l)
       /\ last' = Op("subscribe", "navigation", i, 0, FALSE, << >>, {})
  /\ UNCHANGED <<regVars, native, initialized, currentTheme, isOnlineState,
                 fetchPending, isVisible, dismissTimeoutId, envVars, appVars>>

\* RNNavigationService.onStateChange(state), state defined: notify every listener
onStateChange ==
  /\ Client("navigation")
  /\ \E i \in Obtained("navigation") :
       last' = Op("onStateChange", "navigation", i, 0, FALSE, << >>,
                  Pairs("navigation", i))
  /\ UNCHANGED <<regVars, instVars, envVars, stale, appVars>>

\* RNInfoService.subscribe: listeners.add(listener); listener(this.state)
subscribe ==
  /\ Client("info")
  /\ \E i \in Obtained("info"), l \in Listeners :
       /\ Subscribed("info", i, l)
       /\ last' = Op("subscribe", "info", i, 0, FALSE, << >>, {<<i, l>>})
  /\ UNCHANGED <<regVars, native, initialized, currentTheme, isOnlineState,
                 fetchPending, isVisible, dismissTimeoutId, envVars, appVars>>

DismissAfter(interval) == IF interval = NoInterval THEN DefaultDismissMs ELSE interval

\* RNInfoService.show: clearDismissTimeout(); setState(visible); schedule the timer
show ==
  /\ Client("info")
  /\ \E i \in Obtained("info"), interval \in Intervals :
       /\ isVisible' = [isVisible EXCEPT ![i] = TRUE]
       /\ dismissTimeoutId' =
            [dismissTimeoutId EXCEPT ![i] = DismissAfter(interval) > 0]
       /\ last' = Op("show", "info", i, 0, FALSE, << >>, Pairs("info", i))
  /\ UNCHANGED <<regVars, listeners, native, initialized, currentTheme,
                 isOnlineState, fetchPending, envVars, stale, appVars>>

\* RNInfoService.dismiss: clearDismissTimeout(); setState({...state, isVisible: false})
Dismissed(i, op) ==
  /\ isVisible' = [isVisible EXCEPT ![i] = FALSE]
  /\ dismissTimeoutId' = [dismissTimeoutId EXCEPT ![i] = FALSE]
  /\ last' = Op(op, "info", i, 0, FALSE, << >>, Pairs("info", i))

dismiss ==
  /\ Client("info")
  /\ \E i \in Obtained("info") : Dismissed(i, "dismiss")
  /\ UNCHANGED <<regVars, listeners, native, initialized, currentTheme,
                 isOnlineState, fetchPending, envVars, stale, appVars>>

\* the auto-dismiss timer of show() fires: () => { this.dismiss(); }
DismissTimerFires ==
  /\ Client("info")
  /\ \E i \in Obtained("info") :
       /\ dismissTimeoutId[i]
       /\ Dismissed(i, "timer")
  /\ UNCHANGED <<regVars, listeners, native, initialized, currentTheme,
                 isOnlineState, fetchPending, envVars, stale, appVars>>

ObserveNext ==
  \/ watchSystemTheme \/ applyTheme \/ AppearanceChange
  \/ watchNetworkStatus \/ NetInfoEvent \/ FetchSettles
  \/ addListener \/ onStateChange
  \/ subscribe \/ show \/ dismiss \/ DismissTimerFires

StepNames ==
  <<"storage", "firebase", "analytics", "analyticsClient", "network", "info",
    "revenueCat", "i18n">>
Steps == {StepNames[k] : k \in 1..Len(StepNames)}
NoOptions ==
  [enableFirebaseAuth |-> FALSE, revenueCatConfig |-> FALSE, initializeI18n |-> FALSE]
Pending == [status |-> "pending", value |-> 0, cause |-> "none", stepName |-> "none"]
NoPrev == [status |-> "none", value |-> 0, caught |-> {}]
NoThrow == [step |-> "none", call |-> "none", cause |-> "none"]

AppIdle ==
  /\ runNo = 0 /\ pc = "idle" /\ options = NoOptions
  /\ steps = [s \in Steps |-> "pending"] /\ analytics = 0
  /\ outcome = Pending /\ consoleErrors = {} /\ prev = NoPrev /\ thrown = NoThrow
  /\ firebaseService = FALSE /\ firebaseAuth = FALSE
  /\ diNetworkService = "none" /\ subscription = FALSE /\ i18nCalls = 0

\* --------------------------------------------------------- initializeRNApp
OptionSets ==
  [enableFirebaseAuth : BOOLEAN, revenueCatConfig : BOOLEAN, initializeI18n : BOOLEAN]
Results == {"ok"} \cup Causes
Finished == {"resolved", "rejected"}
Caught == {s \in Steps : steps[s] = "caught"}

\* bookkeeping of one step's status and of the statement that runs next
Advance(step, status, next) ==
  /\ steps' = [steps EXCEPT ![step] = status]
  /\ pc' = next

\* an error thrown outside any try block leaves the async function: its promise
\* rejects with that very error object, nothing is added to it
Reject(step, call, cause) ==
  /\ Advance(step, "failed", "rejected")
  /\ outcome' = [status |-> "rejected", value |-> 0, cause |-> cause,
                 stepName |-> "none"]
  /\ thrown' = [step |-> step, call |-> call, cause |-> cause]

\* return analytics;
Resolve(step, status) ==
  /\ Advance(step, status, "resolved")
  /\ outcome' = [status |-> "resolved", value |-> analytics, cause |-> "none",
                 stepName |-> "none"]
  /\ UNCHANGED thrown

\* initializeRNApp(options) is called (the previous call has settled)
StartRun ==
  /\ domain = "app"
  /\ pc \in {"idle"} \cup Finished
  /\ runNo < MaxRuns
  /\ runNo' = runNo + 1
  /\ \E o \in OptionSets : options' = o
  /\ steps' = [s \in Steps |-> "pending"]
  /\ analytics' = 0
  /\ outcome' = Pending
  /\ consoleErrors' = {}
  /\ thrown' = NoThrow
  /\ prev' = IF pc = "idle" THEN NoPrev
             ELSE [status |-> outcome.status, value |-> outcome.value,
                   caught |-> Caught]
  /\ pc' = "storage"
  /\ UNCHANGED <<regVars, instVars, envVars, stale, last, extVars>>

\* 1. initializeStorageService();
StepStorage ==
  /\ pc = "storage"
  /\ ReplaceInitialize("storage", 0)
  /\ Advance("storage", "done", "firebase")
  /\ UNCHANGED <<envVars, runNo, options, analytics, outcome, consoleErrors, prev,
                 thrown, extVars>>

\* a step 2 whose error is swallowed: the run goes on to step 3
C9_FirebaseFailureSwallowed ==
  /\ pc = "firebase"
  /\ \E res \in Results :
       /\ firebaseService' = (firebaseService \/ res = "ok")
       /\ Advance("firebase", IF res = "ok" THEN "done" ELSE "failed", "analytics")
  /\ UNCHANGED <<regVars, instVars, envVars, stale, last, runNo, options, analytics,
                 outcome, thrown, consoleErrors, prev, firebaseAuth,
                 diNetworkService, subscription, i18nCalls>>

\* a step 2 that undoes step 1 when it fails
C15_FailureRollsBack ==
  /\ pc = "firebase"
  /\ \E res \in Results :
       IF res = "ok"
       THEN /\ firebaseService' = TRUE
            /\ Advance("firebase", "done", "analytics")
            /\ UNCHANGED <<outcome, thrown, regVars>>
       ELSE /\ Reject("firebase", "initializeFirebaseService", res)
            /\ handle' = [handle EXCEPT !["storage"] = 0]
            /\ UNCHANGED <<firebaseService, nextId, disposeCount, diInfoService,
                           everHeld>>
  /\ UNCHANGED <<instVars, envVars, stale, last, runNo, options, analytics,
                 consoleErrors, prev, firebaseAuth, diNetworkService, subscription,
                 i18nCalls>>

\* 2. initializeFirebaseService(firebaseOptions);   (external: returns or throws)
StepFirebase ==
  /\ pc = "firebase"
  /\ \E res \in Results :
       IF res = "ok"
       THEN /\ firebaseService' = TRUE
            /\ Advance("firebase", "done", "analytics")
            /\ UNCHANGED <<outcome, thrown>>
       ELSE /\ Reject("firebase", "initializeFirebaseService", res)
            /\ UNCHANGED firebaseService
  /\ UNCHANGED <<regVars, instVars, envVars, stale, last, runNo, options, analytics,
                 consoleErrors, prev, firebaseAuth, diNetworkService, subscription,
                 i18nCalls>>

\* a step 3 that builds a wrapper of its own instead of using the singleton
C14_WrapperNotInstalled ==
  /\ pc = "analytics"
  /\ Effect("analytics", 0, TRUE, handle["analytics"])
  /\ UNCHANGED <<diInfoService, stale, last>>
  /\ analytics' = Fresh("analytics")
  /\ Advance("analytics", "done", "analyticsClient")
  /\ UNCHANGED <<envVars, runNo, options, outcome, consoleErrors, prev, thrown,
                 extVars>>

\* 3. const analytics = initializeFirebaseAnalytics();
StepAnalytics ==
  /\ pc = "analytics"
  /\ AnalyticsInitialize
  /\ analytics' = handle'["analytics"]
  /\ Advance("analytics", "done", "analyticsClient")
  /\ UNCHANGED <<envVars, runNo, options, outcome, consoleErrors, prev, thrown,
                 extVars>>

\* 4. initializeAnalyticsClient();
StepAnalyticsClient ==
  /\ pc = "analyticsClient"
  /\ ReplaceInitialize("analyticsClient", 0)
  /\ Advance("analyticsClient", "done", "network")
  /\ UNCHANGED <<envVars, runNo, options, analytics, outcome, consoleErrors, prev,
                 thrown, extVars>>

\* initializeDiNetworkService();   (external: returns or throws)
BasicNetwork(status) ==
  \E res \in Results :
    IF res = "ok"
    THEN /\ diNetworkService' = "basic"
         /\ Advance("network", status, "info")
         /\ UNCHANGED <<outcome, thrown>>
    ELSE /\ Reject("network", "initializeDiNetworkService", res)
         /\ UNCHANGED diNetworkService

\* a step 5 that starts the import without awaiting it
C8_ImportNotAwaited ==
  /\ pc = "network"
  /\ IF options.enableFirebaseAuth
     THEN /\ Advance("network", "running", "info")
          /\ UNCHANGED <<outcome, thrown, diNetworkService>>
     ELSE BasicNetwork("done")
  /\ UNCHANGED <<regVars, instVars, envVars, stale, last, runNo, options, analytics,
                 consoleErrors, prev, firebaseService, firebaseAuth, subscription,
                 i18nCalls>>

\* 5. if (enableFirebaseAuth) { try { await import('@sudobility/auth_lib'); ...
\*    } else { initializeDiNetworkService(); }
StepNetwork ==
  /\ pc = "network"
  /\ IF options.enableFirebaseAuth
     THEN /\ Advance("network", "running", "awaitAuthImport")
          /\ UNCHANGED <<outcome, thrown, diNetworkService>>
     ELSE BasicNetwork("done")
  /\ UNCHANGED <<regVars, instVars, envVars, stale, last, runNo, options, analytics,
                 consoleErrors, prev, firebaseService, firebaseAuth, subscription,
                 i18nCalls>>

\* a step 5 without the try block: a failed import leaves the function
C10_AuthFailurePropagates ==
  /\ pc = "awaitAuthImport"
  /\ \E res \in {"ok", "import", "initializeFirebaseAuth", "initializeDiNetworkService"} :
       /\ firebaseAuth' = (firebaseAuth \/ res \in {"ok", "initializeDiNetworkService"})
       /\ IF res = "ok"
          THEN /\ diNetworkService' = "auth"
               /\ Advance("network", "done", "info")
               /\ UNCHANGED <<outcome, thrown>>
          ELSE /\ \E cause \in Causes : Reject("network", res, cause)
               /\ UNCHANGED diNetworkService
  /\ UNCHANGED <<regVars, instVars, envVars, stale, last, runNo, options, analytics,
                 consoleErrors, prev, firebaseService, subscription, i18nCalls>>

\* a step 5 whose catch block only logs
C12_NoFallback ==
  /\ pc = "awaitAuthImport"
  /\ \E res \in {"ok", "import", "initializeFirebaseAuth", "initializeDiNetworkService"} :
       /\ firebaseAuth' = (firebaseAuth \/ res \in {"ok", "initializeDiNetworkService"})
       /\ diNetworkService' = IF res = "ok" THEN "auth" ELSE diNetworkService
       /\ consoleErrors' =
            IF res = "ok" THEN consoleErrors ELSE consoleErrors \cup {"Firebase Auth"}
       /\ Advance("network", IF res = "ok" THEN "done" ELSE "caught", "info")
  /\ UNCHANGED <<regVars, instVars, envVars, stale, last, runNo, options, analytics,
                 outcome, thrown, prev, firebaseService, subscription, i18nCalls>>

\* the import settles and the try block runs to its end, or the catch block
\* logs and falls back to the basic network service
AuthImportSettles ==
  /\ pc = "awaitAuthImport"
  /\ \E res \in {"ok", "import", "initializeFirebaseAuth", "initializeDiNetworkService"} :
       /\ firebaseAuth' = (firebaseAuth \/ res \in {"ok", "initializeDiNetworkService"})
       /\ IF res = "ok"
          THEN /\ diNetworkService' = "auth"
               /\ Advance("network", "done", "info")
               /\ UNCHANGED <<outcome, thrown, consoleErrors>>
          ELSE /\ consoleErrors' = consoleErrors \cup {"Firebase Auth"}
               /\ BasicNetwork("caught")
  /\ UNCHANGED <<regVars, instVars, envVars, stale, last, runNo, options, analytics,
                 prev, firebaseService, subscription, i18nCalls>>

\* 6. initializeInfoService();
StepInfo ==
  /\ pc = "info"
  /\ \E res \in Results :
       /\ InfoInitialize(0, res # "ok")
       /\ IF res = "ok"
          THEN /\ Advance("info", "done", "revenueCat")
               /\ UNCHANGED <<outcome, thrown>>
          ELSE Reject("info", "initializeDiInfoService", res)
  /\ UNCHANGED <<envVars, runNo, options, analytics, consoleErrors, prev, extVars>>

\* a step 7 that loads the library whatever the options say
C13_AlwaysLoad ==
  /\ pc = "revenueCat"
  /\ Advance("revenueCat", "running", "awaitSubscriptionImport")
  /\ UNCHANGED <<regVars, instVars, envVars, stale, last, runNo, options, analytics,
                 outcome, consoleErrors, prev, thrown, extVars>>

\* 7. if (revenueCatConfig) { try { await import('@sudobility/subscription_lib'); ...
StepRevenueCat ==
  /\ pc = "revenueCat"
  /\ IF options.revenueCatConfig
     THEN Advance("revenueCat", "running", "awaitSubscriptionImport")
     ELSE Advance("revenueCat", "skipped", "i18n")
  /\ UNCHANGED <<regVars, instVars, envVars, stale, last, runNo, options, analytics,
                 outcome, consoleErrors, prev, thrown, extVars>>

\* the import settles and the adapter is configured, or the catch block logs
SubscriptionImportSettles ==
  /\ pc = "awaitSubscriptionImport"
  /\ \E res \in {"ok", "import", "configure"} :
       IF res = "ok"
       THEN /\ subscription' = TRUE
            /\ Advance("revenueCat", "done", "i18n")
            /\ UNCHANGED consoleErrors
       ELSE /\ consoleErrors' = consoleErrors \cup {"RevenueCat"}
            /\ Advance("revenueCat", "caught", "i18n")
            /\ UNCHANGED subscription
  /\ UNCHANGED <<regVars, instVars, envVars, stale, last, runNo, options, analytics,
                 outcome, prev, thrown, firebaseService, firebaseAuth,
                 diNetworkService, i18nCalls>>

\* 8. if (initializeI18n) { await initializeI18n(); }  return analytics;
StepI18n ==
  /\ pc = "i18n"
  /\ IF options.initializeI18n
     THEN /\ i18nCalls' = i18nCalls + 1
          /\ \E res \in Results :
               IF res = "ok"
               THEN /\ Advance("i18n", "running", "awaitI18n")
                    /\ UNCHANGED <<outcome, thrown>>
               ELSE Reject("i18n", "initializeI18n", res)
     ELSE /\ Resolve("i18n", "skipped")
          /\ UNCHANGED i18nCalls
  /\ UNCHANGED <<regVars, instVars, envVars, stale, last, runNo, options, analytics,
                 consoleErrors, prev, firebaseService, firebaseAuth,
                 diNetworkService, subscription>>

\* a step 8 inside a try block: a rejected hook is swallowed
C11_I18nRejectionCaught ==
  /\ pc = "awaitI18n"
  /\ \E res \in Results : Resolve("i18n", IF res = "ok" THEN "done" ELSE "caught")
  /\ UNCHANGED <<regVars, instVars, envVars, stale, last, runNo, options, analytics,
                 consoleErrors, prev, extVars>>

\* the value awaited from the hook settles
I18nSettles ==
  /\ pc = "awaitI18n"
  /\ \E res \in Results :
       IF res = "ok" THEN Resolve("i18n", "done")
       ELSE Reject("i18n", "initializeI18n", res)
  /\ UNCHANGED <<regVars, instVars, envVars, stale, last, runNo, options, analytics,
                 consoleErrors, prev, extVars>>

AppNext ==
  \/ StartRun \/ StepStorage \/ StepFirebase \/ StepAnalytics
  \/ StepAnalyticsClient \/ StepNetwork \/ AuthImportSettles \/ StepInfo
  \/ StepRevenueCat \/ SubscriptionImportSettles \/ StepI18n \/ I18nSettles

Init ==
  /\ RegInit
  /\ provides = Linked
  /\ domain \in Domains
  /\ appearanceAvailable \in (IF domain = "theme" THEN BOOLEAN ELSE {TRUE})
  /\ AppIdle

Spec == Init /\ [][HandleNext]_vars

\* client code that obtains the observable services with get*, subscribes to
\* them, and resets the handles
ResetNext ==
  \/ getThemeService \/ resetThemeService
  \/ getNetworkService \/ resetNetworkService
  \/ getNavigationService \/ resetNavigationService
  \/ initializeInfoService \/ getInfoService \/ resetInfoService

ObserveInit == Init /\ domain \in Observable

SpecObserve == ObserveInit /\ [][ResetNext \/ ObserveNext]_vars

AppInit ==
  /\ RegInit
  /\ provides = Linked
  /\ domain = "app"
  /\ appearanceAvailable = TRUE
  /\ AppIdle

SpecApp == AppInit /\ [][AppNext]_vars

\* ------------------------------------------------------------------ claims
\* handles whose get() builds a default instance
AutoCreate == Domains \ {"info", "analytics"}
\* handles whose initialize keeps an instance already installed
FirstWins == {"info", "analytics"}

\* the instances of class d the package itself has constructed or installed
ModuleBuilt(d) == everHeld[d] \cup (IF d \in Exported THEN {ExportId} ELSE {})
\* an instance stays live until it is disposed (theme, network) or, for a class
\* without dispose(), until the handle lets go of it
Live(d, I) ==
  {i \in I : IF d \in Disposable THEN disposeCount[d][i] = 0
             ELSE i \notin everHeld[d] \ {handle[d]}}
DisposeCalls(trace) == {k \in DOMAIN trace : trace[k][1] = "dispose"}
IsStep(op, d) == last'.op = op /\ last'.dom = d

\* C1 (as stated): for every handle, at most one instance of the class is live
\* process-wide, and it is the one the handle holds.
C1_Original ==
  \A d \in Domains : Live(d, ModuleBuilt(d)) \subseteq ({handle[d]} \ {0})

\* C1 (amended): among the instances that have passed through a handle at most
\* one is live, and it is the one the handle holds; every instance the theme or
\* network handle held before has been disposed. The pre-instantiated exports
\* are live besides, outside the handles.
C1_OneLivePerHandle ==
  \A d \in Domains :
    /\ handle[d] \in {0} \cup everHeld[d]
    /\ Live(d, everHeld[d]) \subseteq ({handle[d]} \ {0})
    /\ Cardinality(Live(d, everHeld[d])) <= 1

C1_Witness ==
  \E d \in Disposable : \E i \in everHeld[d] :
    /\ handle[d] \notin {0, i}
    /\ disposeCount[d][i] = 1
    /\ Live(d, everHeld[d]) = {handle[d]}
    /\ ExportId \in Live(d, Constructed(d)) \ everHeld[d]

\* C2: initialize of the theme or network handle while an instance A is held
\* calls A.dispose() exactly once, before the replacement is assigned and
\* returned; no other instance's dispose count changes.
C2_DisposeBeforeReplace ==
  [][\A d \in Disposable :
       (IsStep("initialize", d) /\ handle[d] # 0) =>
         LET A == handle[d]
             B == handle'[d]
             trace == last'.trace
         IN  /\ disposeCount'[d] = [disposeCount[d] EXCEPT ![A] = @ + 1]
             /\ DisposeCalls(trace) = {1}
             /\ trace[1] = <<"dispose", A>>
             /\ trace[Len(trace)] = <<"assign", B>>
             /\ Len(trace) > 1
             /\ last'.ret = B /\ B # 0]_vars

C2_Witness ==
  /\ last.op = "initialize" /\ last.dom \in Disposable
  /\ Len(last.trace) = 2
  /\ last.trace[1][1] = "dispose"
  /\ last.trace[1][2] # last.ret
  /\ handle[last.dom] = last.ret
  /\ disposeCount[last.dom][last.trace[1][2]] = 1
  /\ disposeCount[last.dom][last.ret] = 0

\* C3 (as stated): after initialize(x) of any handle the held instance is x, and
\* after initialize() it is a newly constructed default instance.
C3_Original ==
  [][\A d \in Domains :
       (IsStep("initialize", d) /\ ~last'.threw) =>
         IF last'.inst # 0 THEN handle'[d] = last'.inst
         ELSE handle'[d] \notin Constructed(d) /\ handle'[d] \in Constructed(d)']_vars

\* C3 (amended): the same, except that initializeInfoService and
\* initializeFirebaseAnalytics called while an instance is held keep that
\* instance and construct nothing.
C3_InitializeInstalls ==
  [][\A d \in Domains :
       (IsStep("initialize", d) /\ ~last'.threw) =>
         IF d \in FirstWins /\ handle[d] # 0
         THEN handle'[d] = handle[d] /\ nextId' = nextId
         ELSE IF last'.inst # 0 THEN handle'[d] = last'.inst
         ELSE handle'[d] \notin Constructed(d) /\ handle'[d] \in Constructed(d)']_vars

C3_Witness ==
  /\ last.op = "initialize" /\ last.dom = "info"
  /\ last.inst \notin {0, handle["info"]}
  /\ handle["info"] # 0

\* C5: reset of a handle that holds an instance disposes it exactly once (theme,
\* network) and leaves the handle empty; reset of an empty handle changes
\* nothing, disposes nothing and does not throw.
C5_ResetIdempotent ==
  [][\A d \in Domains :
       IsStep("reset", d) =>
         /\ handle'[d] = 0 /\ ~last'.threw
         /\ IF handle[d] = 0
            THEN /\ UNCHANGED <<regVars, instVars, stale>>
                 /\ last'.trace = << >>
            ELSE IF d \in Disposable
            THEN /\ disposeCount'[d] = [disposeCount[d] EXCEPT ![handle[d]] = @ + 1]
                 /\ last'.trace = << <<"dispose", handle[d]>>, <<"assign", 0>> >>
            ELSE /\ DisposeCalls(last'.trace) = {}
                 /\ disposeCount' = disposeCount]_vars

C5_Witness ==
  /\ last.op = "reset" /\ last.dom \in Disposable
  /\ last.trace = << >>
  /\ handle[last.dom] = 0
  /\ \E i \in everHeld[last.dom] : disposeCount[last.dom][i] = 1

\* C6: get() of an auto-create handle never throws; on an empty handle it
\* constructs exactly one instance and installs it; otherwise it returns the
\* held instance, which only initialize and reset replace.
C6_GetAutoCreates ==
  [][\A d \in AutoCreate :
       /\ IsStep("get", d) =>
            /\ ~last'.threw
            /\ last'.ret = handle'[d] /\ last'.ret # 0
            /\ IF handle[d] = 0
               THEN /\ last'.ret \notin Constructed(d)
                    /\ Constructed(d)' = Constructed(d) \cup {last'.ret}
               ELSE /\ last'.ret = handle[d]
                    /\ nextId' = nextId
       /\ (handle[d] # 0 /\ last'.op \notin {"initialize", "reset"}) =>
            handle'[d] = handle[d]]_vars

C6_Witness ==
  /\ last.op = "get" /\ last.dom \in AutoCreate
  /\ last.trace = << >>
  /\ last.ret = handle[last.dom] /\ last.ret = 1
  /\ nextId[last.dom] = 1

\* C7: getInfoService throws exactly when the handle is empty, constructs
\* nothing, and returns the held instance otherwise; resetInfoService leaves
\* the handle empty and only initializeInfoService fills it.
C7_InfoGetThrows ==
  [][/\ IsStep("get", "info") =>
          /\ last'.threw = (handle["info"] = 0)
          /\ UNCHANGED <<regVars, instVars>>
          /\ handle["info"] # 0 => last'.ret = handle["info"]
     /\ IsStep("reset", "info") => handle'["info"] = 0
     /\ (handle["info"] = 0 /\ handle'["info"] # 0) => IsStep("initialize", "info")
    ]_vars

C7_Witness ==
  /\ last.op = "get" /\ last.dom = "info" /\ last.threw
  /\ handle["info"] = 0
  /\ everHeld["info"] # {}

\* C4 (as stated): in every domain, get() after reset() returns a newly
\* constructed instance distinct from every earlier one, and no operation, timer
\* or native event notifies a listener that was registered on the instance the
\* reset dropped.
C4_Original ==
  [][/\ \A d \in Observable :
          (IsStep("get", d) /\ handle[d] = 0 /\ everHeld[d] # {}) =>
            /\ ~last'.threw
            /\ last'.ret = handle'[d]
            /\ last'.ret \notin {0} \cup Constructed(d)
     /\ \A t \in stale' :
          t[1] = last'.dom => <<t[2], t[3]>> \notin last'.delivered]_vars

\* C4 (amended): get() after reset() returns a newly constructed instance for
\* the auto-create handles and throws for the info handle; listeners dropped
\* by a reset are never notified again for theme and network, whose reset
\* disposes; resetNavigationService and resetInfoService leave the listener
\* set and the pending auto-dismiss timer of the dropped instance in place.
C4_ResetDropsDisposed ==
  [][/\ \A d \in Observable :
          /\ (IsStep("get", d) /\ handle[d] = 0 /\ everHeld[d] # {}) =>
               IF d \in AutoCreate
               THEN /\ ~last'.threw
                    /\ last'.ret = handle'[d]
                    /\ last'.ret \notin {0} \cup Constructed(d)
               ELSE last'.threw /\ handle'[d] = 0 /\ nextId' = nextId
          /\ (IsStep("reset", d) /\ d \notin Disposable) =>
               UNCHANGED <<listeners, dismissTimeoutId>>
     /\ \A t \in stale' :
          (t[1] = last'.dom /\ t[1] \in Disposable) =>
            <<t[2], t[3]>> \notin last'.delivered]_vars

C4_Witness ==
  /\ last.op = "applyTheme"
  /\ \E l \in Listeners : <<"theme", last.inst, l>> \in stale
  /\ last.delivered = {}
  /\ handle["theme"] \notin {0, last.inst}
  /\ handle["theme"] \notin Constructed("theme") \ everHeld["theme"]

Terminal == {"done", "caught", "skipped"}
Index(s) == CHOOSE k \in 1..Len(StepNames) : StepNames[k] = s
Later(s) == {StepNames[j] : j \in (Index(s) + 1)..Len(StepNames)}
Earlier(s) == {StepNames[j] : j \in 1..(Index(s) - 1)}
Required == {"storage", "firebase", "analytics", "info"}
Optional == {"network", "revenueCat"}

\* C8: a step of initializeRNApp has started only if every step before it has
\* ended in success, a caught failure or a skip; at most one step is in
\* progress, and the run is suspended exactly in the step that awaits.
C8_StepsInOrder ==
  /\ \A s \in Steps : steps[s] # "pending" => \A e \in Earlier(s) : steps[e] \in Terminal
  /\ Cardinality({s \in Steps : steps[s] = "running"}) <= 1
  /\ steps["network"] = "running" <=> pc = "awaitAuthImport"
  /\ steps["revenueCat"] = "running" <=> pc = "awaitSubscriptionImport"
  /\ steps["i18n"] = "running" <=> pc = "awaitI18n"

C8_Witness ==
  /\ pc = "awaitSubscriptionImport"
  /\ steps["revenueCat"] = "running"
  /\ steps["network"] = "caught"
  /\ steps["info"] = "done"
  /\ steps["i18n"] = "pending"

\* C9 (as stated): when a required step fails the run is rejected, no later
\* step executes, and what the caller receives carries the name of the failed
\* step and the cause.
C9_Original ==
  \A s \in Required :
    steps[s] = "failed" =>
      /\ pc = "rejected" /\ outcome.status = "rejected"
      /\ \A t \in Later(s) : steps[t] = "pending"
      /\ outcome.cause = thrown.cause /\ outcome.cause \in Causes
      /\ outcome.stepName = s

\* C9 (amended): when a required step fails the run is rejected, no later step
\* executes, and the caller receives the error the step threw, unchanged: it
\* carries the cause and nothing that names the step.
C9_RequiredFailureRejects ==
  \A s \in Required :
    steps[s] = "failed" =>
      /\ pc = "rejected"
      /\ \A t \in Later(s) : steps[t] = "pending"
      /\ thrown.step = s /\ thrown.cause \in Causes
      /\ outcome = [status |-> "rejected", value |-> 0, cause |-> thrown.cause,
                    stepName |-> "none"]

C9_Witness ==
  /\ steps["info"] = "failed"
  /\ steps["network"] = "caught"
  /\ pc = "rejected"
  /\ outcome.cause = "e2"
  /\ steps["revenueCat"] = "pending" /\ steps["i18n"] = "pending"

Message(s) == IF s = "network" THEN "Firebase Auth" ELSE "RevenueCat"

C11_Original ==
  thrown.call = "initializeI18n" =>
    pc = "resolved" /\ outcome.value = handle["analytics"]

\* C11 (amended): the localization hook is called outside any try block: when
\* it throws or its promise rejects, the run is rejected with that error, after
\* every earlier step has ended; the hook is skipped only when not supplied.
C11_I18nFailureRejects ==
  /\ steps["i18n"] # "caught"
  /\ steps["i18n"] = "skipped" => ~options.initializeI18n
  /\ steps["i18n"] \in {"running", "done", "failed"} => options.initializeI18n
  /\ steps["i18n"] = "failed" =>
       /\ pc = "rejected"
       /\ thrown.step = "i18n" /\ thrown.call = "initializeI18n"
       /\ outcome = [status |-> "rejected", value |-> 0, cause |-> thrown.cause,
                     stepName |-> "none"]
       /\ \A e \in Earlier("i18n") : steps[e] \in Terminal

C11_Witness ==
  /\ steps["i18n"] = "failed" /\ pc = "rejected"
  /\ options.initializeI18n
  /\ steps["revenueCat"] = "done"
  /\ handle["analytics"] # 0 /\ outcome.value = 0

C13_OptionalStepsByOption ==
  [][/\ (pc = "revenueCat" /\ pc' # pc) =>
          IF options.revenueCatConfig
          THEN pc' = "awaitSubscriptionImport" /\ steps'["revenueCat"] = "running"
          ELSE /\ pc' = "i18n"
               /\ steps' = [steps EXCEPT !["revenueCat"] = "skipped"]
               /\ UNCHANGED <<regVars, instVars, extVars, outcome, consoleErrors,
                              thrown, analytics>>
     /\ subscription' # subscription =>
          pc = "awaitSubscriptionImport" /\ options.revenueCatConfig
     /\ pc' = "awaitSubscriptionImport" => options.revenueCatConfig
     /\ (pc = "i18n" /\ pc' # pc) =>
          /\ i18nCalls' = i18nCalls + (IF options.initializeI18n THEN 1 ELSE 0)
          /\ ~options.initializeI18n =>
               /\ steps' = [steps EXCEPT !["i18n"] = "skipped"]
               /\ pc' = "resolved"
               /\ UNCHANGED <<regVars, instVars, extVars, consoleErrors, thrown>>
     /\ i18nCalls' # i18nCalls => pc = "i18n" /\ steps["i18n"] = "pending"
    ]_vars

C13_Witness ==
  /\ pc = "resolved" /\ runNo = 2
  /\ steps["revenueCat"] = "skipped" /\ ~options.revenueCatConfig
  /\ steps["i18n"] = "done"
  /\ i18nCalls = 1
  /\ subscription

\* client code calls getAnalyticsService() after initializeRNApp has settled
getAnalyticsServiceAfterRun ==
  /\ domain = "app"
  /\ pc \in Finished
  /\ GetOrThrow("analytics")
  /\ UNCHANGED <<envVars, appVars>>

SpecAppGet == AppInit /\ [][AppNext \/ getAnalyticsServiceAfterRun]_vars

\* C14: every run of initializeRNApp that resolves, with or without a caught
\* optional failure, resolves with the analytics wrapper, and a call of
\* getAnalyticsService() afterwards returns that same instance.
C14_ReturnsAnalyticsWrapper ==
  /\ pc = "resolved" =>
       /\ outcome.status = "resolved"
       /\ outcome.value # 0 /\ outcome.value = analytics
       /\ outcome.value = handle["analytics"]
  /\ (pc = "resolved" /\ last.op = "get" /\ last.dom = "analytics") =>
       ~last.threw /\ last.ret = outcome.value

C14_Witness ==
  /\ pc = "resolved" /\ Caught # {}
  /\ last.op = "get" /\ last.dom = "analytics"
  /\ last.ret = outcome.value /\ last.ret = 1
  /\ runNo = 2

\* what the steps of the current run that have ended left installed
InstalledBy(s) ==
  CASE s = "storage" -> handle["storage"] # 0
    [] s = "firebase" -> firebaseService
    [] s = "analytics" -> handle["analytics"] # 0 /\ handle["analytics"] = analytics
    [] s = "analyticsClient" -> handle["analyticsClient"] # 0
    [] s = "network" -> diNetworkService # "none"
    [] s = "info" -> handle["info"] # 0 /\ diInfoService # 0
    [] s = "revenueCat" -> steps[s] = "done" => subscription
    [] OTHER -> TRUE

\* C15: nothing is rolled back: whatever happens later in the run (a rejected
\* step, a caught failure), what an ended step installed stays installed, a
\* failing or catching step changes no service an earlier step installed, and a
\* suspended step is left only by its own continuation.
C15_NoRollback ==
  [][/\ \A s \in Steps : steps[s] \in Terminal => InstalledBy(s)
     /\ steps["info"] = "failed" => handle["info"] # 0
     /\ (pc' = "rejected" \/ Caught' # Caught) =>
          /\ \A d \in {"storage", "analytics", "analyticsClient"} :
               handle'[d] = handle[d]
          /\ firebaseService' = firebaseService
          /\ subscription' = subscription
          /\ pc # "awaitAuthImport" => diNetworkService' = diNetworkService
          /\ pc # "info" => handle'["info"] = handle["info"]
     /\ (pc = "awaitAuthImport" /\ pc' # pc) =>
          steps'["network"] \in {"done", "caught", "failed"}
     /\ (pc = "awaitSubscriptionImport" /\ pc' # pc) =>
          steps'["revenueCat"] \in {"done", "caught"}
     /\ (pc = "awaitI18n" /\ pc' # pc) => steps'["i18n"] \in {"done", "failed"}
    ]_vars

C15_Witness ==
  /\ pc = "rejected" /\ steps["info"] = "failed"
  /\ steps["network"] = "caught"
  /\ handle["storage"] # 0 /\ firebaseService /\ handle["analytics"] # 0
  /\ handle["analyticsClient"] # 0 /\ diNetworkService = "basic"
  /\ handle["info"] # 0

\* ------------------------------------------ listener sets and notification
\* One observable service instance (of the class named by `domain`), its
\* Set of listeners, the unsubscribe closures it has returned and its
\* listeners.forEach loops, listener call by listener call.
Registered == {c \in Callbacks : entries[c] # 0}

\* an add that inserts the value again
C20_AddAgain(e, c, n) == [e EXCEPT ![c] = n]

\* a delete that empties the set
C19_DeleteAll(e, c) == [x \in DOMAIN e |-> 0]

\* Set.prototype.add: a value already present keeps its place
EntriesAfterAdd(e, c, n) == IF e[c] # 0 THEN e ELSE [e EXCEPT ![c] = n]
\* Set.prototype.delete
EntriesAfterDelete(e, c) == [e EXCEPT ![c] = 0]

\* a loop that stops after the first listener
C18_OnlyFirst(cursor) ==
  IF cursor > 0 \/ \A c \in Callbacks : entries[c] = 0 THEN "none"
  ELSE CHOOSE c \in Callbacks :
         entries[c] # 0 /\ \A o \in Callbacks : entries[o] # 0 => entries[c] <= entries[o]

\* Set.prototype.forEach visits in insertion order the entries present when
\* their turn comes: the next one is the first inserted after the last visited
NextEntry(cursor) ==
  LET later == {c \in Callbacks : entries[c] > cursor}
  IN  IF later = {} THEN "none"
      ELSE CHOOSE c \in later : \A o \in later : entries[c] <= entries[o]

\* a subscribe that never calls the listener / that always calls it
C16_NoImmediateCall(d, v) == << >>
C17_AlwaysImmediateCall(d, v) == <<v>>

\* subscribe of RNInfoService calls listener(this.state); the other services'
\* subscribe functions call nothing
DeliveredOnSubscribe(d, v) == IF d = "info" THEN <<v>> ELSE << >>

\* RNInfoService reads this.state at each listener call; the other services
\* pass the value computed before the loop
NotifiedValue(d, frameVer, cur) == IF d = "info" THEN cur ELSE frameVer

\* client code runs: at top level, or inside a listener being notified
Executing == IF stack = << >> THEN TRUE ELSE Head(stack).running # "none"
\* a subscribe, a token call or a state change happened during these loops
Disturb(st) ==
  IF st = << >> THEN << >>
  ELSE [k \in 1..Len(st) |-> [st[k] EXCEPT !.disturbed = TRUE]]
NotifyFrame ==
  /\ domain \in Observable
  /\ UNCHANGED <<regVars, instVars, domain, appearanceAvailable, storageVars, svcVars,
                 bannerVars, lazyVars, requests,
                 stale, last, appVars>>

\* subscribe / watchNetworkStatus / watchSystemTheme / addListener (callback)
AddListenerCall ==
  /\ NotifyFrame
  /\ Executing
  /\ Len(tokens) < MaxTokens
  /\ \E c \in Callbacks :
       /\ entries[c] = 0 => seqNo < MaxSeq
       /\ entries' = EntriesAfterAdd(entries, c, seqNo + 1)
       /\ seqNo' = IF entries[c] = 0 THEN seqNo + 1 ELSE seqNo
       /\ tokens' = Append(tokens, c)
       /\ active' = active \cup {Len(tokens) + 1}
       /\ note' = [op |-> "subscribe", cb |-> c, token |-> Len(tokens) + 1,
                   got |-> DeliveredOnSubscribe(domain, version)]
       /\ stack' = IF entries[c] = 0 THEN Disturb(stack) ELSE stack
  /\ UNCHANGED version

\* the function returned by subscribe is called: listeners.delete(callback)
TokenCall ==
  /\ NotifyFrame
  /\ Executing
  /\ \E k \in DOMAIN tokens :
       /\ entries' = EntriesAfterDelete(entries, tokens[k])
       /\ active' = active \ {k}
       /\ note' = [op |-> "token", cb |-> tokens[k], token |-> k,
                   removed |-> entries[tokens[k]] # 0, again |-> k \notin active]
       /\ stack' = IF entries[tokens[k]] # 0 THEN Disturb(stack) ELSE stack
  /\ UNCHANGED <<seqNo, version, tokens>>

\* setState / applyTheme / updateOnlineState / onStateChange: the state changes
\* and notifyListeners starts its loop (updateOnlineState is private and runs
\* from NetInfo only, never from inside a listener)
NotifyBegin ==
  /\ NotifyFrame
  /\ Executing
  /\ stack # << >> => domain # "network"
  /\ version < MaxChanges
  /\ Len(stack) < MaxDepth
  /\ version' = version + 1
  /\ stack' = << [ver |-> version + 1, snapshot |-> Registered, cursor |-> 0,
                  running |-> "none", got |-> [c \in Callbacks |-> << >>],
                  disturbed |-> FALSE] >> \o Disturb(stack)
  /\ UNCHANGED <<entries, seqNo, tokens, active, note>>

\* the loop calls the next listener
ListenerCall ==
  /\ NotifyFrame
  /\ stack # << >>
  /\ LET top == Head(stack)
         c == NextEntry(top.cursor)
     IN  /\ top.running = "none"
         /\ c # "none"
         /\ stack' = << [top EXCEPT !.cursor = entries[c], !.running = c,
                                    !.got[c] = Append(@, NotifiedValue(domain, top.ver,
                                                                      version))] >>
                       \o Tail(stack)
  /\ UNCHANGED <<entries, seqNo, version, tokens, active, note>>

\* the listener being notified returns
ListenerReturn ==
  /\ NotifyFrame
  /\ stack # << >>
  /\ Head(stack).running # "none"
  /\ stack' = << [Head(stack) EXCEPT !.running = "none"] >> \o Tail(stack)
  /\ UNCHANGED <<entries, seqNo, version, tokens, active, note>>

\* the loop has no entry left to visit
NotifyEnd ==
  /\ NotifyFrame
  /\ stack # << >>
  /\ Head(stack).running = "none"
  /\ NextEntry(Head(stack).cursor) = "none"
  /\ stack' = Tail(stack)
  /\ note' = [op |-> "notified", frame |-> Head(stack)]
  /\ UNCHANGED <<entries, seqNo, version, tokens, active>>

NotifyNext ==
  \/ AddListenerCall \/ TokenCall \/ NotifyBegin
  \/ ListenerCall \/ ListenerReturn \/ NotifyEnd

NotifyInit == RegInit /\ provides = Linked /\ domain \in Observable /\ appearanceAvailable = TRUE /\ AppIdle

SpecNotify == NotifyInit /\ [][NotifyNext]_vars

Did(op) == note' # note /\ note'.op = op

\* C16: RNInfoService.subscribe(listener) calls listener once with the current
\* state before it returns, whatever has or has not happened before, and the
\* listener is in the set afterwards.
C16_InfoSubscribeDelivers ==
  [][(domain = "info" /\ Did("subscribe")) =>
       /\ note'.got = <<version>>
       /\ version' = version
       /\ note'.cb \in Registered'
       /\ Registered' = Registered \cup {note'.cb}]_vars

C16_Witness ==
  /\ domain = "info" /\ note.op = "subscribe"
  /\ version = 0 /\ stack = << >>
  /\ note.got = <<0>>
  /\ note.cb \in Registered

\* C17 (as stated): watchNetworkStatus, watchSystemTheme and addListener call
\* the new listener with the current state before they return.
C17_Original ==
  [][(domain # "info" /\ Did("subscribe")) => note'.got = <<version>>]_vars

\* C17 (amended): watchNetworkStatus, watchSystemTheme and addListener only
\* add the callback to the set; the listener is not called until the next
\* change is notified.
C17_SubscribeOnlyRegisters ==
  [][(domain # "info" /\ Did("subscribe")) =>
       /\ note'.got = << >>
       /\ Registered' = Registered \cup {note'.cb}
       /\ version' = version]_vars

C17_Witness ==
  /\ domain = "network" /\ note.op = "subscribe"
  /\ version = 1 /\ stack = << >>
  /\ note.got = << >>
  /\ note.cb \in Registered

\* C18 (as stated): every listener registered when a notification begins
\* receives exactly that state exactly once, whatever the listeners do while
\* being notified.
C18_Original ==
  [][Did("notified") =>
       \A c \in note'.frame.snapshot : note'.frame.got[c] = <<note'.frame.ver>>]_vars

Values(seq) == {seq[k] : k \in DOMAIN seq}

\* C18 (amended): when no listener subscribes, unsubscribes or changes the
\* state during a notification, exactly the listeners registered at its start
\* receive exactly that state once each. Otherwise the loop follows the live
\* Set: a listener removed before its turn is not called, one added during the
\* loop is called, and RNInfoService passes the state current at each call
\* rather than the state the notification began with.
C18_DeliveryFollowsLiveSet ==
  [][Did("notified") =>
       LET f == note'.frame
       IN  /\ ~f.disturbed =>
                \A c \in Callbacks :
                  f.got[c] = IF c \in f.snapshot THEN <<f.ver>> ELSE << >>
           /\ \A c \in Callbacks :
                /\ (c \notin f.snapshot /\ f.got[c] # << >>) => f.disturbed
                /\ \A v \in Values(f.got[c]) :
                     IF domain = "info" THEN v >= f.ver /\ v <= version
                     ELSE v = f.ver]_vars

C18_Witness ==
  /\ note.op = "notified"
  /\ note.frame.disturbed
  /\ note.frame.snapshot = Callbacks
  /\ \E c \in Callbacks : note.frame.got[c] = << >>
  /\ \E c \in Callbacks : note.frame.got[c] = <<note.frame.ver>>
  /\ Cardinality(Registered) = 1

\* C19 (as stated): calling a token removes the one subscription it was
\* returned for; calling it again later, also after the same callback has been
\* subscribed again, removes nothing.
C19_Original ==
  [][Did("token") =>
       IF note'.token \in active
       THEN entries' = [entries EXCEPT ![note'.cb] = 0]
       ELSE entries' = entries]_vars

\* C19 (amended): calling a token deletes the callback it closes over from the
\* set, never throws and leaves every other callback registered; when the
\* callback is not in the set the call changes nothing. A token called again
\* after the same callback has been subscribed again removes that later
\* registration.
C19_TokenDeletesCallback ==
  [][Did("token") =>
       /\ note'.cb = tokens[note'.token]
       /\ entries' = [entries EXCEPT ![note'.cb] = 0]
       /\ note'.removed = (note'.cb \in Registered)
       /\ ~note'.removed => entries' = entries
       /\ UNCHANGED <<tokens, version>>]_vars

C19_Witness ==
  /\ note.op = "token"
  /\ note.again /\ note.removed
  /\ note.cb \notin Registered
  /\ \E k \in active : tokens[k] = note.cb

\* C20 (as stated): every subscription whose token has not been called is
\* still registered, also when the same callback was subscribed twice and the
\* other token was called.
C20_Original == \A k \in active : tokens[k] \in Registered

\* C20 (amended): a listener's identity is the callback value: subscribing a
\* callback that is registered adds no second entry, and calling any token
\* returned for that callback removes its one entry, whatever other tokens for
\* it are outstanding.
C20_IdentityIsCallback ==
  [][/\ (Did("subscribe") /\ note'.cb \in Registered) => entries' = entries
     /\ Did("token") => note'.cb \notin Registered'
     /\ \A c \in Registered' : \E k \in active' : tokens'[k] = c]_vars

C20_Witness ==
  /\ note.op = "token" /\ ~note.again
  /\ tokens = <<note.cb, note.cb>>
  /\ active = {2}
  /\ Registered = {}
  /\ seqNo = 1

\* ------------------------------------------------ dispose() called directly
\* the native remove() / unsubscribe() calls of one dispose(): one when the
\* subscription is attached, none otherwise
RemoveTrace(d, i) == IF native[d][i] THEN << <<"remove", i>> >> ELSE << >>

\* client code calls dispose() on a theme or network service it holds:
\*   if (sub) { sub.remove(); sub = null; }  this.listeners.clear();
dispose ==
  /\ domain \in Disposable
  /\ \E i \in Obtained(domain) :
       /\ disposeCount[domain][i] <= MaxDispose
       /\ disposeCount' = CountAfterDispose(disposeCount, domain, i)
       /\ listeners' = ListenersAfterDispose(listeners, domain, i)
       /\ native' = NativeAfterDispose(native, domain, i)
       /\ stale' = stale \cup StaleOf(domain, i)
       /\ last' = Op("dispose", domain, i, 0, FALSE, RemoveTrace(domain, i), {})
  /\ UNCHANGED <<handle, nextId, diInfoService, everHeld, initialized, currentTheme,
                 isOnlineState, fetchPending, isVisible, dismissTimeoutId,
                 envVars, appVars>>

DisposeNext ==
  \/ getThemeService \/ watchSystemTheme \/ applyTheme \/ AppearanceChange
  \/ getNetworkService \/ watchNetworkStatus \/ NetInfoEvent \/ FetchSettles
  \/ dispose

DisposeInit == Init /\ domain \in Disposable

SpecDispose == DisposeInit /\ [][DisposeNext]_vars

\* C21: dispose() on a theme or network service empties its listener set and
\* releases its native subscription with exactly one native remove call; a
\* dispose() of a service already disposed calls nothing and changes nothing;
\* no listener dropped by a dispose is notified by any later native event,
\* settled fetch or applyTheme, unless it has been subscribed again.
C21_DisposeReleases ==
  [][/\ \A d \in Disposable :
          IsStep("dispose", d) =>
            LET i == last'.inst
            IN  /\ listeners'[d][i] = {}
                /\ ~native'[d][i]
                /\ last'.trace = IF native[d][i] THEN << <<"remove", i>> >> ELSE << >>
                /\ last'.delivered = {}
                /\ \A j \in Inst \ {i} :
                     listeners'[d][j] = listeners[d][j] /\ native'[d][j] = native[d][j]
                /\ (disposeCount[d][i] > 0 /\ listeners[d][i] = {}) =>
                     /\ last'.trace = << >>
                     /\ UNCHANGED <<listeners, native, stale, handle, initialized,
                                    currentTheme, isOnlineState, fetchPending>>
     /\ \A t \in stale' :
          t[1] = last'.dom => <<t[2], t[3]>> \notin last'.delivered]_vars

C21_Witness ==
  /\ last.op = "fetchResolved"
  /\ disposeCount["network"][last.inst] = 2
  /\ \E l \in Listeners : <<"network", last.inst, l>> \in stale
  /\ ~isOnlineState[last.inst]
  /\ last.delivered = {}
  /\ ~native["network"][last.inst]

\* ------------------------------------------------ the banner and its timer
\* One RNInfoService: its state, its dismissTimeoutId, the timers pending in
\* the runtime and the clock. show and dismiss notify the listeners from within
\* setState, so a listener can call show or dismiss before the call returns.
Contents ==
  {[title |-> "t1", description |-> "d1", variant |-> "info"],
   [title |-> "t2", description |-> "d2", variant |-> "error"]}

\* newState = { isVisible: true, title, description, variant };
\* if (interval != null) newState.duration = interval
ShownState(c, interval) ==
  [isVisible |-> TRUE, title |-> c.title, description |-> c.description,
   variant |-> c.variant, duration |-> interval]

\* a dismiss that also blanks the title
C24_DismissBlanks(st) == [st EXCEPT !.isVisible = FALSE, !.title = ""]

\* { ...this.state, isVisible: false }
DismissedState(st) == [st EXCEPT !.isVisible = FALSE]

\* clearDismissTimeout: if (id) { clearTimeout(id); id = null }
TimersAfterClear(ts, id) == {tm \in ts : tm.id # id}

\* client code runs: at top level, or inside a listener being notified
ClientRuns == IF frames = << >> THEN TRUE ELSE subscribers # {}
CanCall ==
  /\ callNo < MaxCalls
  /\ Len(frames) < MaxDepth
  /\ ClientRuns

BannerFrame ==
  /\ domain = "info"
  /\ UNCHANGED <<regVars, instVars, domain, appearanceAvailable, storageVars, svcVars,
                 notifyVars, lazyVars, requests,
                 stale, last, appVars>>

\* show(title, text, type, interval) up to the listeners' notification
ShowCall ==
  /\ BannerFrame
  /\ CanCall
  /\ \E c \in Contents, interval \in Intervals :
       /\ timers' = TimersAfterClear(timers, timerId)
       /\ timerId' = 0
       /\ banner' = ShownState(c, interval)
       /\ callNo' = callNo + 1
       /\ frames' = << [op |-> "show", no |-> callNo + 1,
                        dismissAfter |-> DismissAfter(interval)] >> \o frames
       /\ shown' = [no |-> callNo + 1, at |-> now, after |-> DismissAfter(interval),
                    quiet |-> TRUE]
       /\ hides' = 0
       /\ act' = [op |-> "show", no |-> callNo + 1, nested |-> frames # << >>]
  /\ UNCHANGED <<timerSeq, now, subscribers>>

\* the notification of show has ended: if (dismissAfter > 0) id = setTimeout(...)
ShowReturn ==
  /\ BannerFrame
  /\ frames # << >>
  /\ LET f == Head(frames)
     IN  /\ f.op = "show"
         /\ IF f.dismissAfter > 0
            THEN /\ timers' = timers \cup {[id |-> timerSeq + 1,
                                            due |-> now + f.dismissAfter,
                                            show |-> f.no]}
                 /\ timerId' = timerSeq + 1
                 /\ timerSeq' = timerSeq + 1
            ELSE UNCHANGED <<timers, timerId, timerSeq>>
         /\ act' = [op |-> "shown", no |-> f.no, nested |-> Len(frames) > 1]
  /\ frames' = Tail(frames)
  /\ UNCHANGED <<banner, now, callNo, shown, hides, subscribers>>

\* dismiss() up to the listeners' notification
DismissCall ==
  /\ BannerFrame
  /\ CanCall
  /\ timers' = TimersAfterClear(timers, timerId)
  /\ timerId' = 0
  /\ banner' = DismissedState(banner)
  /\ callNo' = callNo + 1
  /\ frames' = << [op |-> "dismiss", no |-> callNo + 1, dismissAfter |-> 0] >> \o frames
  /\ shown' = [shown EXCEPT !.quiet = FALSE]
  /\ hides' = hides + 1
  /\ act' = [op |-> "dismiss", no |-> callNo + 1, nested |-> frames # << >>]
  /\ UNCHANGED <<timerSeq, now, subscribers>>

\* the notification of dismiss has ended
DismissReturn ==
  /\ BannerFrame
  /\ frames # << >>
  /\ Head(frames).op \in {"dismiss", "timer"}
  /\ frames' = Tail(frames)
  /\ act' = [op |-> "dismissed", no |-> Head(frames).no, nested |-> Len(frames) > 1]
  /\ UNCHANGED <<banner, timerId, timers, timerSeq, now, callNo, shown, hides,
                 subscribers>>

\* timers run in the order of their due time, then of their creation
FirstDue(tm) ==
  /\ tm.due <= now
  /\ \A o \in timers : o.due > tm.due \/ (o.due = tm.due /\ o.id >= tm.id)

\* a timer of show fires when no call is running: () => { this.dismiss(); }
TimeoutFires ==
  /\ BannerFrame
  /\ frames = << >>
  /\ \E tm \in timers :
       /\ FirstDue(tm)
       /\ timers' = TimersAfterClear(timers \ {tm}, timerId)
       /\ frames' = << [op |-> "timer", no |-> tm.show, dismissAfter |-> 0] >>
       /\ act' = [op |-> "timer", no |-> tm.show, nested |-> FALSE]
  /\ timerId' = 0
  /\ banner' = DismissedState(banner)
  /\ hides' = hides + 1
  /\ UNCHANGED <<timerSeq, now, callNo, shown, subscribers>>

\* the amounts by which the clock advances between calls
Delays == {DismissAfter(i) \div 2 : i \in Intervals} \ {0}

\* time passes while nothing runs and no timer is due: to the next due time,
\* or part of the way
TimePasses ==
  /\ BannerFrame
  /\ frames = << >>
  /\ \A tm \in timers : tm.due > now
  /\ LET dues == {tm.due : tm \in timers}
         part == {now + d : d \in Delays}
     IN  \E t \in dues \cup {u \in part : u <= MaxNow} :
           /\ \A d \in dues : t <= d
           /\ now' = t
  /\ act' = [op |-> "tick"]
  /\ UNCHANGED <<banner, timerId, timers, timerSeq, frames, callNo, shown, hides,
                 subscribers>>

\* subscribe(listener): listeners.add(listener); listener(this.state)
SubscribeCall ==
  /\ BannerFrame
  /\ ClientRuns
  /\ \E l \in Listeners :
       /\ subscribers' = subscribers \cup {l}
       /\ act' = [op |-> "subscribe", cb |-> l, got |-> banner]
  /\ UNCHANGED <<banner, timerId, timers, timerSeq, now, frames, callNo, shown, hides>>

\* the function subscribe returned: listeners.delete(listener)
UnsubscribeCall ==
  /\ BannerFrame
  /\ ClientRuns
  /\ \E l \in Listeners :
       /\ subscribers' = subscribers \ {l}
       /\ act' = [op |-> "unsubscribe", cb |-> l]
  /\ UNCHANGED <<banner, timerId, timers, timerSeq, now, frames, callNo, shown, hides>>

\* getState(): return this.state
GetStateCall ==
  /\ BannerFrame
  /\ ClientRuns
  /\ act' = [op |-> "getState", ret |-> banner]
  /\ UNCHANGED <<banner, timerId, timers, timerSeq, now, frames, callNo, shown, hides,
                 subscribers>>

BannerNext ==
  \/ ShowCall \/ ShowReturn \/ DismissCall \/ DismissReturn
  \/ TimeoutFires \/ TimePasses
  \/ SubscribeCall \/ UnsubscribeCall \/ GetStateCall

BannerInit == RegInit /\ provides = Linked /\ domain = "info" /\ appearanceAvailable = TRUE /\ AppIdle

SpecBanner == BannerInit /\ [][BannerNext]_vars

\* the time at which the most recent show's banner is due to be hidden
DueOfShown == shown.at + shown.after

\* C22 (as stated): after show(..., d) with d > 0 and no further show or
\* dismiss, the banner is visible until d has elapsed from that call, turns
\* invisible exactly then, and listeners are notified of isVisible = false
\* exactly once; a show before d elapses moves the deadline to its own.
C22_Original ==
  (shown.no > 0 /\ shown.after > 0 /\ shown.quiet /\ frames = << >>) =>
    /\ hides <= 1
    /\ now < DueOfShown => banner.isVisible /\ hides = 0
    /\ now > DueOfShown => ~banner.isVisible /\ hides = 1

\* C23 (as stated): at most one auto-dismiss timer is pending, it is the one
\* dismissTimeoutId names and it belongs to the most recent show; the timer of
\* an earlier show never hides the banner of a later show.
C23_Original ==
  /\ Cardinality(timers) <= 1
  /\ \A tm \in timers : tm.show = shown.no /\ tm.id = timerId
  /\ act.op = "timer" => act.no = shown.no

C22_Witness ==
  /\ act.op = "dismissed" /\ act.no = 1 /\ frames = << >>
  /\ shown.no = 2 /\ shown.quiet /\ shown.at = 0 /\ shown.after = DefaultDismissMs
  /\ now = 100
  /\ ~banner.isVisible /\ banner.title = "t2"
  /\ \E tm \in timers : tm.show = 2 /\ tm.due = DefaultDismissMs

C23_Witness ==
  /\ frames = << >> /\ act.op = "shown" /\ act.no = 1
  /\ Cardinality(timers) = 2
  /\ shown.no = 2
  /\ \E tm \in timers : tm.show = 2 /\ tm.id # timerId
  /\ \E tm \in timers : tm.show = 1 /\ tm.id = timerId /\ tm.due < DueOfShown

Acted(ops) == act' # act /\ act'.op \in ops

\* C24: the banner state changes only in show, dismiss and the firing of the
\* auto-dismiss timer; isVisible becomes true only in show and false only in
\* dismiss or the timer; dismiss and the timer change isVisible alone, so
\* title, description, variant and duration keep the values of the last show;
\* subscribe, unsubscribe and getState change neither the state nor the timer.
C24_OnlyShowAndDismiss ==
  [][/\ banner' # banner => Acted({"show", "dismiss", "timer"})
     /\ (~banner.isVisible /\ banner'.isVisible) => Acted({"show"})
     /\ (banner.isVisible /\ ~banner'.isVisible) => Acted({"dismiss", "timer"})
     /\ Acted({"show"}) => banner'.isVisible
     /\ Acted({"dismiss", "timer"}) => banner' = [banner EXCEPT !.isVisible = FALSE]
     /\ Acted({"subscribe", "unsubscribe", "getState"}) =>
          UNCHANGED <<banner, timerId, timers, shown>>
     /\ Acted({"getState"}) => act'.ret = banner
    ]_vars

C24_Witness ==
  /\ act.op = "dismissed" /\ frames = << >>
  /\ banner = [isVisible |-> FALSE, title |-> "t2", description |-> "d2",
               variant |-> "error", duration |-> 100]
  /\ now = 50 /\ timers = {}
  /\ subscribers # {}

\* ------------------------------------------------- lazy native modules
\* the packages in which the resolver reads the default export on every call
\* (return XModule?.default ?? null); the others cache what they return
ReadsDefault == {"getNetInfo", "getNotifee"}

\* a resolver that caches the absence as well
C25_CacheAbsence(r, p) == TRUE

\* try { XModule = require(...) } catch { warn }: the variable is set unless
\* require throws; getAppearance stores RN.Appearance, which may be undefined
CachedAfter(r, p) == p = "module" \/ (p = "empty" /\ r # "getAppearance")

\* what the resolver returns once it has run
Returned(r, p, set) ==
  IF ~set THEN "null"
  ELSE IF r \in ReadsDefault /\ p # "module" THEN "null"
  ELSE "module"

OpNames ==
  {"setItem", "getItem", "removeItem", "clear", "getAllKeys",
   "showNotification", "requestPermission", "closeNotification",
   "clearAllNotifications", "getBadgeCount", "setBadgeCount",
   "getNetworkInfo", "watchNetworkStatus",
   "getSystemTheme", "watchSystemTheme", "InfoBanner"}

\* the resolver each operation calls
ResolverOf(op) ==
  CASE op \in {"setItem", "getItem", "removeItem", "clear", "getAllKeys"} ->
         "getAsyncStorage"
    [] op \in {"showNotification", "requestPermission", "closeNotification",
               "clearAllNotifications", "getBadgeCount", "setBadgeCount"} ->
         "getNotifee"
    [] op \in {"getNetworkInfo", "watchNetworkStatus"} -> "getNetInfo"
    [] op \in {"getSystemTheme", "watchSystemTheme"} -> "getAppearance"
    [] OTHER -> "getToast"

\* an operation that returns normally whatever the resolver gives
C26_Silent(op) == "void"

\* what each operation does when its resolver returns null
AbsentOutcome(op) ==
  CASE op = "setItem" -> "throw"
    [] op \in {"getItem", "getNetworkInfo"} -> "null"
    [] op = "getAllKeys" -> "empty"
    [] op \in {"showNotification", "requestPermission"} -> "failed"
    [] op \in {"closeNotification", "clearAllNotifications"} -> "false"
    [] op = "getBadgeCount" -> "zero"
    [] op = "getSystemTheme" -> "light"
    [] OTHER -> "void"

\* an operation of RNStorage, RNNotificationService, RNNetworkService,
\* RNThemeService or InfoBanner calls its resolver and goes on with the result
LazyCall ==
  /\ domain = "native"
  /\ lazyCalls < MaxLazyCalls
  /\ \E op \in OpNames :
       LET r == ResolverOf(op)
           attempt == ~cached[r]
           set == cached[r] \/ CachedAfter(r, provides[r])
           got == Returned(r, provides[r], set)
       IN  /\ requires' = [requires EXCEPT ![r] = IF attempt THEN @ + 1 ELSE @]
           /\ cached' = [cached EXCEPT ![r] = set]
           /\ available' = IF got = "module" THEN available \cup {r} ELSE available
           /\ lazyOp' = [op |-> op, resolver |-> r, attempted |-> attempt, got |-> got,
                      outcome |-> IF got = "null" THEN AbsentOutcome(op)
                                  ELSE "delegated"]
  /\ lazyCalls' = lazyCalls + 1
  /\ UNCHANGED <<regVars, instVars, domain, appearanceAvailable, storageVars, svcVars,
                 notifyVars,
                 bannerVars, provides, requests, stale, last, appVars>>

\* the optional packages are all missing, all without the export, or all there
Environments == {[r \in Resolvers |-> p] : p \in Provided}

LazyInit ==
  /\ RegInit
  /\ provides \in Environments
  /\ domain = "native"
  /\ appearanceAvailable = TRUE
  /\ AppIdle

SpecLazy == LazyInit /\ [][LazyCall]_vars

\* C25 (as stated): each lazy resolver makes exactly one resolution attempt
\* per process lifetime and caches the outcome, success or absence.
C25_Original == \A r \in Resolvers : requires[r] <= 1

\* C25 (amended): a resolver caches only a module it has loaded: it calls
\* require() on every call until one call succeeds and never afterwards, so
\* while the package is absent every call repeats the attempt. A resolver that
\* has returned its module returns it on every later call without an attempt:
\* available never reverts to unavailable.
C25_CachesSuccessOnly ==
  [][lazyCalls' # lazyCalls =>
       LET r == lazyOp'.resolver
       IN  /\ lazyOp'.attempted = ~cached[r]
           /\ requires'[r] = requires[r] + (IF cached[r] THEN 0 ELSE 1)
           /\ cached[r] => cached'[r]
           /\ cached'[r] = (cached[r] \/ provides[r] = "module"
                              \/ (provides[r] = "empty" /\ r # "getAppearance"))
           /\ provides[r] = "throws" => ~cached'[r] /\ lazyOp'.attempted /\ lazyOp'.got = "null"
           /\ r \in available => lazyOp'.got = "module" /\ ~lazyOp'.attempted
           /\ \A o \in Resolvers \ {r} :
                cached'[o] = cached[o] /\ requires'[o] = requires[o]]_vars

C25_Witness ==
  /\ requires["getAsyncStorage"] = 3
  /\ ~cached["getAsyncStorage"]
  /\ provides["getAsyncStorage"] = "throws"
  /\ lazyOp.op = "getItem" /\ lazyOp.got = "null" /\ lazyOp.attempted

Timeouts == {30000, 0, 100}     \* options?.timeout ?? this.defaultTimeout
Statuses == {200, 404}          \* response.status
FetchErrors == {"TypeError"}    \* what fetch rejects with when it is not aborted
ParseErrors == {"SyntaxError"}  \* what response.json() rejects with
NoOutcome == [kind |-> "pending", name |-> "none", status |-> 0]
Timeout408 == [kind |-> "threw", name |-> "NetworkError", status |-> 408]

\* a catch block that reports every failure as a timeout
C27_AlwaysTimeout(name) == Timeout408

\* catch (error): AbortError becomes NetworkError 408, anything else is rethrown
Rethrown(name) ==
  IF name = "AbortError" THEN Timeout408
  ELSE [kind |-> "threw", name |-> name, status |-> 0]

\* clearTimeout(timeoutId): cancels a pending timer, ignores one that has fired
TimerAfterClear(t) == IF t = "armed" THEN "cleared" ELSE t

RequestFrame ==
  /\ domain = "networkClient"
  /\ UNCHANGED <<regVars, instVars, domain, appearanceAvailable, storageVars, svcVars,
                 notifyVars,
                 bannerVars, lazyVars, stale, last, appVars>>

\* request(url, options) up to `await fetch(url, fetchOptions)`
RequestCall ==
  /\ RequestFrame
  /\ Len(requests) < MaxRequests
  /\ \E timeout \in Timeouts :
       requests' = Append(requests,
                          [phase |-> "fetching", timeout |-> timeout, timer |-> "armed",
                           aborted |-> FALSE, cause |-> "none", status |-> 0,
                           outcome |-> NoOutcome])

\* the timer fires: () => controller.abort()
AbortTimerFires ==
  /\ RequestFrame
  /\ \E i \in DOMAIN requests :
       /\ requests[i].timer = "armed"
       /\ requests' = [requests EXCEPT ![i].timer = "fired", ![i].aborted = TRUE]

\* fetch resolves with a response: clearTimeout(timeoutId), then the body is parsed
FetchResolves ==
  /\ RequestFrame
  /\ \E i \in DOMAIN requests, status \in Statuses :
       /\ requests[i].phase = "fetching"
       /\ ~requests[i].aborted
       /\ requests' = [requests EXCEPT ![i].phase = "parsing", ![i].status = status,
                                       ![i].timer = TimerAfterClear(@)]

\* fetch rejects: with AbortError once the signal is aborted, else with a
\* network error; the catch block clears the timer and throws
FetchRejects ==
  /\ RequestFrame
  /\ \E i \in DOMAIN requests :
       /\ requests[i].phase = "fetching"
       /\ \E name \in IF requests[i].aborted THEN {"AbortError"} ELSE FetchErrors :
            requests' = [requests EXCEPT ![i].phase = "done", ![i].cause = name,
                                        ![i].timer = TimerAfterClear(@),
                                        ![i].outcome = Rethrown(name)]

\* parseResponse settles: the call returns the response, or the parse error
\* goes through the catch block
ParseSettles ==
  /\ RequestFrame
  /\ \E i \in DOMAIN requests :
       /\ requests[i].phase = "parsing"
       /\ \/ requests' = [requests EXCEPT ![i].phase = "done",
                             ![i].outcome = [kind |-> "returned", name |-> "none",
                                             status |-> requests[i].status]]
          \/ \E name \in ParseErrors :
               requests' = [requests EXCEPT ![i].phase = "done", ![i].cause = name,
                                           ![i].timer = TimerAfterClear(@),
                                           ![i].outcome = Rethrown(name)]

RequestNext ==
  \/ RequestCall \/ AbortTimerFires \/ FetchResolves \/ FetchRejects \/ ParseSettles

RequestInit ==
  /\ RegInit
  /\ provides = Linked
  /\ domain = "networkClient"
  /\ appearanceAvailable = TRUE
  /\ AppIdle

SpecRequest == RequestInit /\ [][RequestNext]_vars

\* C27: a request fails with NetworkError 408 exactly when its own timer
\* fired before its fetch settled; any other failure of fetch or of the body
\* parsing reaches the caller unchanged; once fetch has settled the timer is
\* no longer pending; a timer aborts no request but its own.
C27_TimeoutIffTimerFired ==
  \A i \in DOMAIN requests :
    LET r == requests[i]
    IN  /\ r.phase # "fetching" => r.timer # "armed"
        /\ r.phase = "parsing" => r.timer = "cleared"
        /\ r.aborted <=> r.timer = "fired"
        /\ r.phase = "done" =>
             /\ r.outcome = Timeout408 <=> r.timer = "fired"
             /\ r.timer = "cleared" =>
                  IF r.cause = "none"
                  THEN r.outcome = [kind |-> "returned", name |-> "none",
                                    status |-> r.status]
                  ELSE r.outcome = [kind |-> "threw", name |-> r.cause, status |-> 0]
        /\ r.phase # "done" => r.outcome = NoOutcome

C27_Witness ==
  /\ Len(requests) = 2
  /\ requests[1].outcome = Timeout408 /\ requests[1].timer = "fired"
  /\ requests[2].phase = "done" /\ requests[2].timer = "cleared"
  /\ requests[2].outcome = [kind |-> "threw", name |-> "SyntaxError", status |-> 0]
  /\ requests[2].status = 404

\* ------------------------------------------------------------- storage
\* RNStorage over AsyncStorage, and AdvancedRNStorage over RNStorage. Whether
\* getAsyncStorage() returns the module is decided by the environment; the
\* resolver's caching is the subject of LazyCall.
StorageAvailable == provides["getAsyncStorage"] # "throws"
Texts == {"", "v"}
Plain(v) == [kind |-> "plain", value |-> v, timestamp |-> 0, ttl |-> "undefined", ms |-> 0]
StoredKeys(b) == {k \in Keys : b[k].kind # "absent"}

\* a setItem that writes nothing
C30_DropWrite(b, k, raw) == b

\* AsyncStorage.setItem / removeItem / clear / multiRemove
StoreAfterSet(b, k, raw) == [b EXCEPT ![k] = raw]
StoreAfterRemove(b, K) == [k \in Keys |-> IF k \in K THEN Absent ELSE b[k]]
LastSetAfterRemove(ls, K) == [k \in Keys |-> IF k \in K THEN NoValue ELSE ls[k]]
WrittenAfterRemove(w, K) == [k \in Keys |-> IF k \in K THEN NoWrite ELSE w[k]]

\* the string RNStorage.getItem returns: value ?? null
TextOf(raw) ==
  IF raw.kind = "absent" THEN NoValue
  ELSE IF raw.kind = "json" THEN "{json}"
  ELSE raw.value

StorageFrame ==
  /\ domain = "storage"
  /\ storageOps < MaxStorageOps
  /\ storageOps' = storageOps + 1
  /\ UNCHANGED <<regVars, instVars, domain, appearanceAvailable, notifyVars,
                 bannerVars, lazyVars, requests, svcVars, stale, last, appVars>>

\* RNStorage.setItem: if (!storage) throw ...; await storage.setItem(key, value)
RNSetItem ==
  /\ StorageFrame
  /\ \E k \in Keys, v \in Texts :
       IF StorageAvailable
       THEN /\ backing' = StoreAfterSet(backing, k, Plain(v))
            /\ lastSet' = [lastSet EXCEPT ![k] = v]
            /\ written' = WrittenAfterRemove(written, {k})
            /\ storeOp' = [op |-> "setItem", layer |-> "rn", key |-> k, threw |-> FALSE]
       ELSE /\ UNCHANGED <<backing, lastSet, written>>
            /\ storeOp' = [op |-> "setItem", layer |-> "rn", key |-> k, threw |-> TRUE]
  /\ UNCHANGED clockMs

\* RNStorage.getItem: if (!storage) return null; return value ?? null
RNGetItem ==
  /\ StorageFrame
  /\ \E k \in Keys :
       storeOp' = [op |-> "getItem", layer |-> "rn", key |-> k,
                   ret |-> IF StorageAvailable THEN TextOf(backing[k]) ELSE NoValue]
  /\ UNCHANGED <<backing, clockMs, written, lastSet>>

\* RNStorage.removeItem: if (!storage) return; await storage.removeItem(key)
RNRemoveItem ==
  /\ StorageFrame
  /\ \E k \in Keys :
       /\ backing' = IF StorageAvailable THEN StoreAfterRemove(backing, {k}) ELSE backing
       /\ lastSet' = LastSetAfterRemove(lastSet, {k})
       /\ written' = WrittenAfterRemove(written, {k})
       /\ storeOp' = [op |-> "removeItem", layer |-> "rn", key |-> k]
  /\ UNCHANGED clockMs

\* RNStorage.clear: if (!storage) return; await storage.clear()
RNClear ==
  /\ StorageFrame
  /\ backing' = IF StorageAvailable THEN StoreAfterRemove(backing, Keys) ELSE backing
  /\ lastSet' = LastSetAfterRemove(lastSet, Keys)
  /\ written' = WrittenAfterRemove(written, Keys)
  /\ storeOp' = [op |-> "clear", layer |-> "rn"]
  /\ UNCHANGED clockMs

\* RNStorage.getAllKeys: if (!storage) return []; return [...keys]
RNGetAllKeys ==
  /\ StorageFrame
  /\ storeOp' = [op |-> "getAllKeys", layer |-> "rn",
                 ret |-> IF StorageAvailable THEN StoredKeys(backing) ELSE {}]
  /\ UNCHANGED <<backing, clockMs, written, lastSet>>

RNStorageNext == RNSetItem \/ RNGetItem \/ RNRemoveItem \/ RNClear \/ RNGetAllKeys

StorageInit ==
  /\ RegInit
  /\ provides \in {[r \in Resolvers |-> p] : p \in {"throws", "module"}}
  /\ domain = "storage"
  /\ appearanceAvailable = TRUE
  /\ AppIdle

SpecStorage == StorageInit /\ [][RNStorageNext]_vars

\* C30: RNStorage passes through to the backing store: getItem(k) returns the
\* value last set for k by a setItem that succeeded and not followed by a
\* removeItem(k) or clear(), and null otherwise; getAllKeys returns exactly the
\* keys that hold a value; a setItem that fails for want of AsyncStorage sets
\* nothing.
C30_PassThrough ==
  /\ \A k \in Keys : TextOf(backing[k]) = lastSet[k]
  /\ storeOp.op = "getItem" => storeOp.ret = lastSet[storeOp.key]
  /\ storeOp.op = "getAllKeys" => storeOp.ret = {k \in Keys : lastSet[k] # NoValue}
  /\ storeOp.op = "setItem" => storeOp.threw = ~StorageAvailable
  /\ ~StorageAvailable => \A k \in Keys : lastSet[k] = NoValue

C30_Witness ==
  /\ storeOp.op = "getAllKeys" /\ storeOp.ret = {<<"a", "b">>}
  /\ lastSet[<<"a", "b">>] = ""
  /\ lastSet[<<"a">>] = NoValue
  /\ storageOps = 3

\* -------------------------------------------------- AdvancedRNStorage
\* JSON.parse(JSON.stringify({ value, timestamp, ttl: ttl ?? undefined })): a
\* key whose value is undefined is left out, a number that is not finite is
\* written as null
Stringify(v, ts, ttl) ==
  [kind |-> "json", value |-> v, timestamp |-> ts,
   ttl |-> CASE ttl.kind = "none" -> "undefined"
             [] ttl.kind = "finite" -> "number"
             [] OTHER -> "null",
   ms |-> IF ttl.kind = "finite" THEN ttl.ms ELSE 0]

\* stored.ttl !== undefined && Date.now() - stored.timestamp > stored.ttl,
\* where the comparison takes null as 0
Expired(raw, t) == raw.ttl # "undefined" /\ t - raw.timestamp > raw.ms

\* getItem: what it returns and whether it removes the key
\*   if (!raw) return null; try { parse; expired ? remove, null : value }
\*   catch { return raw }
ReadOf(k) ==
  LET raw == IF StorageAvailable THEN backing[k] ELSE Absent
  IN  IF raw.kind = "absent" \/ (raw.kind = "plain" /\ raw.value = "")
      THEN [ret |-> NoValue, remove |-> FALSE]
      ELSE IF raw.kind = "plain" THEN [ret |-> raw.value, remove |-> FALSE]
      ELSE IF Expired(raw, clockMs) THEN [ret |-> NoValue, remove |-> TRUE]
      ELSE [ret |-> raw.value, remove |-> FALSE]

\* the pattern argument of clearPattern: absent, or an expression made of an
\* optional ^, literal characters and an optional $
NoPattern == [given |-> FALSE, start |-> FALSE, text |-> << >>, end |-> FALSE]
PatternArgs ==
  {NoPattern} \cup
  [given : {TRUE}, start : BOOLEAN, text : {<< >>, <<"a">>, <<"b">>}, end : BOOLEAN]
\* !pattern: undefined, null or the empty string
IsNoPattern(p) == ~p.given \/ (p.text = << >> /\ ~p.start /\ ~p.end)

\* an expression that matches every key
C29_MatchesAll(p, k) == TRUE

\* new RegExp(pattern).test(key): the text occurs in the key, at the start
\* under ^, up to the end under $
Matches(p, k) ==
  \E i \in 0..(Len(k) - Len(p.text)) :
    /\ p.start => i = 0
    /\ p.end => i + Len(p.text) = Len(k)
    /\ \A j \in 1..Len(p.text) : k[i + j] = p.text[j]

\* AdvancedRNStorage.setItem(key, value, ttl)
AdvSetItem ==
  /\ StorageFrame
  /\ \E k \in Keys, ttl \in TtlArgs :
       IF StorageAvailable
       THEN /\ backing' = StoreAfterSet(backing, k, Stringify("v", clockMs, ttl))
            /\ lastSet' = [lastSet EXCEPT ![k] = "{json}"]
            /\ written' = [written EXCEPT ![k] = [kind |-> "set", value |-> "v",
                                                   at |-> clockMs, ttl |-> ttl]]
            /\ storeOp' = [op |-> "setItem", layer |-> "adv", key |-> k, threw |-> FALSE]
       ELSE /\ UNCHANGED <<backing, lastSet, written>>
            /\ storeOp' = [op |-> "setItem", layer |-> "adv", key |-> k, threw |-> TRUE]
  /\ UNCHANGED clockMs

\* AdvancedRNStorage.getItem(key) and hasItem(key) (getItem(key) !== null)
AdvRead(op) ==
  /\ StorageFrame
  /\ \E k \in Keys :
       LET r == ReadOf(k)
           K == IF r.remove THEN {k} ELSE {}
       IN  /\ backing' = StoreAfterRemove(backing, K)
           /\ lastSet' = LastSetAfterRemove(lastSet, K)
           /\ written' = WrittenAfterRemove(written, K)
           /\ storeOp' = [op |-> op, layer |-> "adv", key |-> k, ret |-> r.ret,
                          has |-> r.ret # NoValue, removed |-> r.remove,
                          ttl |-> written[k].ttl, age |-> clockMs - written[k].at]
  /\ UNCHANGED clockMs

AdvGetItem == AdvRead("getItem")
AdvHasItem == AdvRead("hasItem")

\* AdvancedRNStorage.clearPattern(pattern)
AdvClearPattern ==
  /\ StorageFrame
  /\ \E p \in PatternArgs :
       LET keys == IF StorageAvailable THEN StoredKeys(backing) ELSE {}
           K == IF IsNoPattern(p) THEN Keys ELSE {k \in keys : Matches(p, k)}
       IN  /\ backing' = IF StorageAvailable THEN StoreAfterRemove(backing, K)
                         ELSE backing
           /\ lastSet' = LastSetAfterRemove(lastSet, K)
           /\ written' = WrittenAfterRemove(written, K)
           /\ storeOp' = [op |-> "clearPattern", layer |-> "adv", pattern |-> p,
                          before |-> keys]
  /\ UNCHANGED clockMs

\* a millisecond passes
ClockTicks ==
  /\ domain = "storage"
  /\ clockMs < MaxClock
  /\ clockMs' = clockMs + 1
  /\ UNCHANGED <<regVars, instVars, domain, appearanceAvailable, notifyVars,
                 bannerVars, lazyVars, requests, svcVars, backing, storageOps, written,
                 lastSet, storeOp, stale, last, appVars>>

AdvancedNext ==
  \/ AdvSetItem \/ AdvGetItem \/ AdvHasItem \/ AdvClearPattern \/ ClockTicks
  \/ RNSetItem \/ RNRemoveItem

SpecAdvanced == StorageInit /\ [][AdvancedNext]_vars

AdvStep(ops) ==
  /\ storageOps' # storageOps
  /\ storeOp'.layer = "adv" /\ storeOp'.op \in ops

\* C28 (as stated): after setItem(k, v, ttl) at t0, getItem(k) at t returns v
\* when no ttl was given or t - t0 <= ttl; when t - t0 > ttl it returns null
\* and removes k, so that getItem and hasItem report absence afterwards.
C28_Original ==
  [][AdvStep({"getItem", "hasItem"}) =>
       LET k == storeOp'.key
           w == written[k]
           live == \/ w.ttl.kind \in {"none", "infinite"}
                   \/ clockMs - w.at <= w.ttl.ms
       IN  w.kind = "set" =>
             IF live
             THEN storeOp'.ret = w.value /\ storeOp'.has /\ backing' = backing
             ELSE /\ storeOp'.ret = NoValue /\ ~storeOp'.has
                  /\ backing'[k] = Absent /\ written'[k] = NoWrite]_vars

C28_Witness ==
  /\ storeOp.op = "getItem" /\ storeOp.layer = "adv"
  /\ storeOp.ttl.kind = "infinite" /\ storeOp.age = 1
  /\ storeOp.ret = NoValue /\ storeOp.removed
  /\ backing[storeOp.key] = Absent

\* C29: clearPattern(p) with a non-empty expression removes exactly the
\* stored keys the expression matches and leaves every other key and its
\* value as they are; ^a removes exactly the keys that start with a;
\* clearPattern without a pattern removes every key.
C29_ClearsMatching ==
  [][AdvStep({"clearPattern"}) =>
       LET p == storeOp'.pattern
       IN  /\ ~p.given => \A k \in Keys : backing'[k] = Absent
           /\ (p.given /\ ~IsNoPattern(p)) =>
                \A k \in Keys :
                  backing'[k] = IF Matches(p, k) THEN Absent ELSE backing[k]
           /\ p = [given |-> TRUE, start |-> TRUE, text |-> <<"a">>, end |-> FALSE] =>
                \A k \in Keys :
                  backing'[k] = IF Head(k) = "a" THEN Absent ELSE backing[k]
           /\ p = [given |-> TRUE, start |-> FALSE, text |-> <<"b">>, end |-> TRUE] =>
                \A k \in Keys :
                  backing'[k] = IF k[Len(k)] = "b" THEN Absent ELSE backing[k]]_vars

C29_Witness ==
  /\ storeOp.op = "clearPattern"
  /\ storeOp.pattern = [given |-> TRUE, start |-> TRUE, text |-> <<"b">>, end |-> FALSE]
  /\ storeOp.before = {<<"a", "b">>, <<"b", "a">>}
  /\ StoredKeys(backing) = {<<"a", "b">>}


\* ------------------------------------------ the info service in two registries
\* C31 (as stated): after any sequence of initializeInfoService and
\* resetInfoService calls, the instance this package's getInfoService reaches
\* and the instance registered with @sudobility/di are the same instance, or
\* both are absent.
C31_Original == handle["info"] = diInfoService

C31_Witness ==
  /\ last.op = "reset" /\ last.dom = "info"
  /\ last.trace = << <<"assign", 0>> >>
  /\ handle["info"] = 0
  /\ diInfoService \in everHeld["info"]

\* ------------------------------------------------ native listener setup
\* C32 (as stated): constructing an RNNetworkService or RNThemeService
\* attaches no native listener; the listener is attached by the first use of
\* the instance (a watch call on it) and at most once per instance: only an
\* instance not yet initialized attaches, and an initialized one stays so.
C32_Original ==
  [][\A d \in Disposable, i \in Inst :
       /\ (nextId'[d] # nextId[d] /\ i = Fresh(d)) => ~native'[d][i]
       /\ (~native[d][i] /\ native'[d][i]) =>
            /\ last'.op = "subscribe" /\ last'.dom = d /\ last'.inst = i
            /\ ~initialized[i] /\ initialized'[i]
       /\ initialized[i] => initialized'[i]]_vars

C32_Witness ==
  /\ last.op = "get" /\ last.dom = "network"
  /\ last.trace # << >> /\ last.trace[1] = <<"new", last.ret>>
  /\ native["network"][last.ret]
  /\ listeners["network"][last.ret] = {}
  /\ native["network"][ExportId] /\ ExportId \notin Obtained("network")

\* ------------------------------------ RNNetworkService, report by report
Told(v) == IF v THEN "true" ELSE "false"
NetInfoStates == [isConnected : Tri, isInternetReachable : Tri]

\* a service that calls its listeners on every report
C33_NotifyAlways(was, isOnline, ls) == ls

\* if (this.isOnlineState !== isOnline) { ...; this.notifyListeners(isOnline); }
Notified(was, isOnline, ls) == IF was # isOnline THEN ls ELSE {}

\* updateOnlineState(state) run by every instance of I
Processed(I, state, op, inst) ==
  LET isOnline == IsOnline(state.isConnected, state.isInternetReachable)
      told(i) == IF i \in I
                 THEN Notified(isOnlineState[i], isOnline, listeners["network"][i])
                 ELSE {}
      after(h) == [i \in Inst |-> [l \in Listeners |->
                     IF l \in told(i) THEN Told(isOnline) ELSE h[i][l]]]
  IN  /\ isOnlineState' =
           [i \in Inst |-> IF i \in I THEN isOnline ELSE isOnlineState[i]]
      /\ reported' = [i \in Inst |-> IF i \in I THEN state ELSE reported[i]]
      /\ heard' = after(heard)
      /\ everHeard' = after(everHeard)
      /\ UNCHANGED <<colorScheme, channel, shows, toast>>
      /\ last' = Op(op, "network", inst, 0, FALSE, << >>,
                    UNION {{<<i, l>> : l \in told(i)} : i \in I})

NetFrame ==
  /\ domain = "network"
  /\ UNCHANGED <<regVars, native, initialized, currentTheme, isVisible,
                 dismissTimeoutId, domain, appearanceAvailable, notifyVars,
                 bannerVars, lazyVars, requests, storageVars, appVars>>

\* watchNetworkStatus(callback): this.listeners.add(callback)
NetWatch ==
  /\ NetFrame
  /\ \E i \in Obtained("network"), l \in Listeners :
       /\ Subscribed("network", i, l)
       /\ heard' = IF l \in listeners["network"][i] THEN heard
                   ELSE [heard EXCEPT ![i][l] = NotHeard]
       /\ last' = Op("subscribe", "network", i, 0, FALSE, << >>, {})
  /\ UNCHANGED <<isOnlineState, fetchPending, reported, everHeard, colorScheme,
                 channel, shows, toast>>

\* the cleanup function it returned: this.listeners.delete(callback)
NetUnwatch ==
  /\ NetFrame
  /\ \E i \in Obtained("network"), l \in Listeners :
       /\ l \in listeners["network"][i]
       /\ listeners' = [listeners EXCEPT !["network"][i] = @ \ {l}]
       /\ last' = Op("unsubscribe", "network", i, 0, FALSE, << >>, {})
  /\ UNCHANGED <<isOnlineState, fetchPending, svcVars, stale>>

\* NetInfo calls every subscribed event listener with one state
NetReport ==
  /\ NetFrame
  /\ \E i \in Inst : native["network"][i]
  /\ \E state \in NetInfoStates :
       Processed({i \in Inst : native["network"][i]}, state, "netInfoEvent", 0)
  /\ UNCHANGED <<listeners, fetchPending, stale>>

\* the constructor's NetInfo.fetch() settles
NetFetchSettles ==
  /\ NetFrame
  /\ \E i \in Inst :
       /\ fetchPending[i]
       /\ fetchPending' = [fetchPending EXCEPT ![i] = FALSE]
       /\ \/ \E state \in NetInfoStates : Processed({i}, state, "fetchResolved", i)
          \/ /\ UNCHANGED <<isOnlineState, svcVars>>
             /\ last' = Op("fetchRejected", "network", i, 0, FALSE, << >>, {})
  /\ UNCHANGED <<listeners, stale>>

NetworkNext ==
  \/ getNetworkService \/ NetWatch \/ NetUnwatch \/ NetReport \/ NetFetchSettles
  \/ dispose

NetworkInit == Init /\ domain = "network"

SpecNetwork == NetworkInit /\ [][NetworkNext]_vars

Reporting == last' # last /\ last'.op \in {"netInfoEvent", "fetchResolved"}
ToldBy(step, i) == {l \in Listeners : <<i, l>> \in step.delivered}
OnlineOf(state) ==
  IF state = NoReport THEN TRUE
  ELSE IsOnline(state.isConnected, state.isInternetReachable)

\* C33 (as stated): listeners are notified only when the online state
\* changes; the values delivered to any listener strictly alternate;
\* isOnline() equals the value last delivered to a registered listener, or
\* true if none was delivered to it; and the value is online exactly when
\* the latest report has isConnected = true and isInternetReachable not false.
C33_Original ==
  [][\A i \in Inst :
       /\ isOnlineState'[i] = OnlineOf(reported'[i])
       /\ Reporting =>
            /\ ToldBy(last', i) # {} => isOnlineState'[i] # isOnlineState[i]
            /\ \A l \in ToldBy(last', i) :
                 /\ everHeard'[i][l] = Told(isOnlineState'[i])
                 /\ everHeard[i][l] # everHeard'[i][l]
       /\ \A l \in listeners'["network"][i] :
            isOnlineState'[i] =
              (IF everHeard'[i][l] = NotHeard THEN TRUE ELSE everHeard'[i][l] = "true")
    ]_vars

\* C33: a report changes isOnlineState to its online value and calls the
\* listeners registered at that moment exactly when that value differs from
\* the one held; what a listener receives while it stays subscribed
\* alternates, and once it has received a value, the value it received last
\* is isOnline(); the value is online exactly when the latest report the
\* instance processed has isConnected = true and isInternetReachable not
\* false, and true before any report.
C33_NotifiesOnChange ==
  [][\A i \in Inst :
       /\ isOnlineState'[i] = OnlineOf(reported'[i])
       /\ Reporting =>
            /\ ToldBy(last', i) =
                 IF isOnlineState'[i] # isOnlineState[i]
                 THEN listeners["network"][i] ELSE {}
            /\ \A l \in ToldBy(last', i) :
                 /\ heard'[i][l] = Told(isOnlineState'[i])
                 /\ heard[i][l] # heard'[i][l]
       /\ \A l \in listeners'["network"][i] :
            heard'[i][l] # NotHeard => heard'[i][l] = Told(isOnlineState'[i])
    ]_vars

C33_Witness ==
  /\ last.op = "netInfoEvent" /\ last.delivered = {<<1, "cb">>}
  /\ heard[1]["cb"] = "true" /\ isOnlineState[1]
  /\ reported[1] = [isConnected |-> "true", isInternetReachable |-> "null"]

\* C34 (as stated): whenever an RNThemeService has a registered listener and
\* the Appearance module is available, its native appearance-change listener
\* is attached, also for listeners added after a dispose().
C34_Original ==
  \A i \in Inst :
    (listeners["theme"][i] # {} /\ appearanceAvailable) => native["theme"][i]

C34_Witness ==
  /\ appearanceAvailable
  /\ last.op = "subscribe" /\ last.dom = "theme"
  /\ disposeCount["theme"][last.inst] = 1
  /\ initialized[last.inst]
  /\ listeners["theme"][last.inst] = {"cb"}
  /\ ~native["theme"][last.inst]
  /\ currentTheme[last.inst] = "system"

\* --------------------------------------- RNThemeService, value by value
ColorSchemeName == {"light", "dark", "null"}

\* a service that hands its listeners the theme setting itself
C35_Unresolved(theme, scheme, hasAppearance) == theme

\* getResolvedTheme():
\*   if (currentTheme === 'system') {
\*     systemTheme = Appearance?.getColorScheme() ?? 'light';
\*     return systemTheme === 'dark' ? 'dark' : 'light' }
\*   return currentTheme
ResolvedTheme(theme, scheme, hasAppearance) ==
  IF theme = "system"
  THEN LET systemTheme == IF hasAppearance /\ scheme # "null" THEN scheme ELSE "light"
       IN  IF systemTheme = "dark" THEN "dark" ELSE "light"
  ELSE theme

\* notifyListeners() of the instances of I: every listener gets getResolvedTheme()
HeardAfter(I, themes, scheme) ==
  [i \in Inst |-> [l \in Listeners |->
     IF i \in I /\ l \in listeners["theme"][i]
     THEN ResolvedTheme(themes[i], scheme, appearanceAvailable)
     ELSE heard[i][l]]]

ThemeFrame ==
  /\ domain = "theme"
  /\ UNCHANGED <<regVars, listeners, native, initialized, isOnlineState,
                 fetchPending, isVisible, dismissTimeoutId, domain,
                 appearanceAvailable, notifyVars, bannerVars, lazyVars, requests,
                 storageVars, reported, everHeard, channel, shows, toast, stale, appVars>>

\* applyTheme(theme): this.currentTheme = theme; this.notifyListeners()
ThemeApply ==
  /\ ThemeFrame
  /\ \E i \in Obtained("theme"), theme \in ThemeMode :
       /\ currentTheme' = [currentTheme EXCEPT ![i] = theme]
       /\ heard' = HeardAfter({i}, currentTheme', colorScheme)
       /\ last' = Op("applyTheme", "theme", i, 0, FALSE, << >>, Pairs("theme", i))
  /\ UNCHANGED colorScheme

\* the system appearance changes; every attached change listener runs
\*   if (this.currentTheme === 'system') this.notifyListeners()
SchemeChanges ==
  /\ ThemeFrame
  /\ appearanceAvailable
  /\ \E scheme \in ColorSchemeName \ {colorScheme} :
       LET I == {i \in Inst : native["theme"][i] /\ currentTheme[i] = "system"}
       IN  /\ colorScheme' = scheme
           /\ heard' = HeardAfter(I, currentTheme, scheme)
           /\ last' = Op("appearanceChange", "theme", 0, 0, FALSE, << >>,
                         UNION {Pairs("theme", i) : i \in I})
  /\ UNCHANGED currentTheme

ThemeNext ==
  \/ getThemeService \/ watchSystemTheme \/ ThemeApply \/ SchemeChanges \/ dispose

ThemeInit == Init /\ domain = "theme"

SpecTheme == ThemeInit /\ [][ThemeNext]_vars

\* C35: applyTheme notifies every registered listener on every call; a system
\* appearance change notifies only listeners of instances whose theme is
\* 'system' and nobody on an instance set to 'light' or 'dark'; the value
\* delivered, which is what getResolvedTheme returns, is 'light' or 'dark':
\* the current theme when that is not 'system', else the system scheme, with
\* 'light' when the scheme is not known.
C35_NotifiesResolved ==
  [][\A i \in Inst :
       LET told == ToldBy(last', i)
           resolved == ResolvedTheme(currentTheme'[i], colorScheme', appearanceAvailable)
       IN  /\ resolved \in {"light", "dark"}
           /\ currentTheme'[i] # "system" => resolved = currentTheme'[i]
           /\ currentTheme'[i] = "system" =>
                resolved = (IF appearanceAvailable /\ colorScheme' = "dark"
                            THEN "dark" ELSE "light")
           /\ (last' # last /\ last'.op = "applyTheme" /\ last'.inst = i) =>
                /\ told = listeners["theme"][i]
                /\ \A l \in told : heard'[i][l] = resolved
           /\ (last' # last /\ last'.op = "appearanceChange") =>
                /\ told # {} => currentTheme[i] = "system" /\ native["theme"][i]
                /\ currentTheme[i] \in {"light", "dark"} =>
                     told = {} /\ heard'[i] = heard[i]
                /\ (currentTheme[i] = "system" /\ native["theme"][i]) =>
                     told = listeners["theme"][i]
                /\ \A l \in told : heard'[i][l] = resolved
    ]_vars

C35_Witness ==
  /\ last.op = "appearanceChange" /\ last.delivered = {}
  /\ colorScheme = "dark"
  /\ \E i \in Inst :
       /\ native["theme"][i] /\ listeners["theme"][i] = {"cb"}
       /\ currentTheme[i] = "light" /\ heard[i]["cb"] = "light"

\* ------------------------------- RNNotificationService.showNotification
DisplayResults == {"success", "failure"}

ChannelFrame ==
  /\ domain = "notification"
  /\ UNCHANGED <<regVars, instVars, domain, appearanceAvailable, notifyVars,
                 bannerVars, lazyVars, requests, storageVars, reported, heard,
                 everHeard, colorScheme, toast, stale, last, appVars>>

\* showNotification(title, options) up to `await this.ensureChannel()`;
\* ensureChannel runs to its first await:
\*   if (this.channelCreated) return;
\*   this.channelCreated = true; await notifee.createChannel(...)
ShowNotificationCall ==
  /\ ChannelFrame
  /\ Len(shows) < MaxShows
  /\ IF channel.channelCreated
     THEN /\ shows' = Append(shows, [phase |-> "ensured", channelAt |-> "none",
                                     result |-> "none"])
          /\ UNCHANGED channel
     ELSE /\ shows' = Append(shows, [phase |-> "creating", channelAt |-> "none",
                                     result |-> "none"])
          /\ channel' = [channelCreated |-> TRUE, attempts |-> channel.attempts + 1,
                         createChannel |-> "pending"]

\* notifee.createChannel settles; `catch {}` swallows a rejection, and the
\* call that awaited it returns from ensureChannel
CreateChannelSettles ==
  /\ ChannelFrame
  /\ channel.createChannel = "pending"
  /\ \E how \in {"resolved", "rejected"} :
       channel' = [channel EXCEPT !.createChannel = how]
  /\ shows' = [k \in DOMAIN shows |->
                 IF shows[k].phase = "creating"
                 THEN [shows[k] EXCEPT !.phase = "ensured"] ELSE shows[k]]

\* a call resumes after `await this.ensureChannel()`:
\*   await notifee.displayNotification(notificationConfig)
DisplayCall ==
  /\ ChannelFrame
  /\ \E k \in DOMAIN shows :
       /\ shows[k].phase = "ensured"
       /\ shows' = [shows EXCEPT ![k] = [@ EXCEPT !.phase = "displaying",
                                                  !.channelAt = channel.createChannel]]
  /\ UNCHANGED channel

\* displayNotification settles: { success: true, notificationId } or
\* { success: false, error }
DisplaySettles ==
  /\ ChannelFrame
  /\ \E k \in DOMAIN shows, r \in DisplayResults :
       /\ shows[k].phase = "displaying"
       /\ shows' = [shows EXCEPT ![k] = [@ EXCEPT !.phase = "done", !.result = r]]
  /\ UNCHANGED channel

ChannelNext ==
  ShowNotificationCall \/ CreateChannelSettles \/ DisplayCall \/ DisplaySettles

ChannelInit == Init /\ domain = "notification"

SpecChannel == ChannelInit /\ [][ChannelNext]_vars

\* C36 (as stated): under any interleaving of concurrent showNotification
\* calls on one instance, creation of the default channel is attempted at
\* most once, and no notification is handed to displayNotification before
\* that attempt has completed.
C36_Original ==
  /\ channel.attempts <= 1
  /\ \A k \in DOMAIN shows :
       shows[k].phase \in {"displaying", "done"} =>
         shows[k].channelAt \in {"resolved", "rejected"}

C36_Witness ==
  /\ Len(shows) = 2
  /\ shows[1].phase = "creating" /\ channel.createChannel = "pending"
  /\ shows[2].phase = "done" /\ shows[2].channelAt = "pending"
  /\ shows[2].result = "success"
  /\ channel.attempts = 1

\* ------------------------------------------- the InfoBanner component
ToastFrame ==
  /\ domain = "info"
  /\ UNCHANGED <<regVars, instVars, domain, appearanceAvailable, notifyVars,
                 timers, timerSeq, now, frames, shown, hides, subscribers, act,
                 lazyVars, requests, storageVars, reported, heard, everHeard,
                 colorScheme, channel, shows, stale, last, appVars>>

\* the service notifies the component's listener (React's setState) of st;
\* the component renders again and its effect is due
Rendered(st) ==
  [toast EXCEPT !.state = st, !.pending = TRUE, !.called = "none",
                !.expect = IF st.isVisible = banner.isVisible THEN "none"
                           ELSE IF st.isVisible THEN "show" ELSE "hide"]

\* React has committed the previous render before the next event is handled
Committed == ~toast.pending

\* state.isVisible && (!ref.current || ref.current.title !== state.title ||
\*   ref.current.description !== state.description ||
\*   ref.current.variant !== state.variant)
ShowsToast(st, ref) ==
  /\ st.isVisible
  /\ IF ref = << >> THEN TRUE
     ELSE \/ ref[1].title # st.title
          \/ ref[1].description # st.description
          \/ ref[1].variant # st.variant

\* !state.isVisible && ref.current?.isVisible
HidesToast(st, ref) ==
  /\ ~st.isVisible
  /\ IF ref = << >> THEN FALSE ELSE ref[1].isVisible

\* service.show(...) with the InfoBanner mounted
BannerShows ==
  /\ ToastFrame
  /\ Committed
  /\ callNo < MaxCalls
  /\ \E c \in Contents, interval \in Intervals :
       /\ banner' = ShownState(c, interval)
       /\ timerId' = IF DismissAfter(interval) > 0 THEN 1 ELSE 0
       /\ toast' = Rendered(ShownState(c, interval))
  /\ callNo' = callNo + 1

\* service.dismiss(), called by client code or by the auto-dismiss timer
BannerDismisses ==
  /\ ToastFrame
  /\ Committed
  /\ \/ callNo < MaxCalls /\ callNo' = callNo + 1
     \/ timerId # 0 /\ UNCHANGED callNo
  /\ banner' = DismissedState(banner)
  /\ timerId' = 0
  /\ toast' = Rendered(DismissedState(banner))

\* the effect of InfoBanner runs with the state it was rendered with
EffectRuns ==
  /\ ToastFrame
  /\ toast.pending
  /\ toast' =
       IF ShowsToast(toast.state, toast.ref)
       THEN [toast EXCEPT !.ref = <<toast.state>>, !.called = "show",
                          !.pending = FALSE]
       ELSE IF HidesToast(toast.state, toast.ref)
       THEN [toast EXCEPT !.ref = <<toast.state>>, !.called = "hide",
                          !.pending = FALSE]
       ELSE [toast EXCEPT !.pending = FALSE]
  /\ UNCHANGED <<banner, timerId, callNo>>

ToastNext == BannerShows \/ BannerDismisses \/ EffectRuns

SpecToast == BannerInit /\ [][ToastNext]_vars

\* C37 (as stated): every change of the banner state from not visible to
\* visible, also one whose title, description and variant equal those of
\* the previous show, results in one Toast.show call, and every change from
\* visible to not visible results in one Toast.hide call.
C37_Original ==
  (~toast.pending /\ toast.expect # "none") => toast.called = toast.expect

C37_Witness ==
  /\ ~toast.pending /\ toast.expect = "show" /\ toast.called = "none"
  /\ banner.isVisible /\ toast.state = banner
  /\ toast.ref # << >>
  /\ ~toast.ref[1].isVisible
  /\ toast.ref[1].title = banner.title
  /\ toast.ref[1].description = banner.description
  /\ toast.ref[1].variant = banner.variant

\* C38 (as stated): show schedules the auto-dismiss after the given interval
\* when that is greater than 0 and after 4000 ms when none is given; with an
\* interval of 0 or less it schedules no timer, so the banner stays visible
\* until an explicit dismiss or the next show; the state's duration field is
\* set exactly when an interval was given.
C38_Original ==
  [][/\ Acted({"show"}) =>
          /\ banner'.isVisible
          /\ shown'.after = (IF banner'.duration = NoInterval
                             THEN DefaultDismissMs ELSE banner'.duration)
     /\ Acted({"shown"}) =>
          LET f == Head(frames)
          IN  IF f.dismissAfter > 0
              THEN /\ timerId' \notin {tm.id : tm \in timers}
                   /\ timers' = timers \cup {[id |-> timerId', due |-> now + f.dismissAfter,
                                              show |-> f.no]}
              ELSE timers' = timers /\ timerId' = timerId
     /\ (shown'.no > 0 /\ shown'.after <= 0 /\ shown'.quiet) => banner'.isVisible
    ]_vars

C38_Witness ==
  /\ act.op = "timer"
  /\ shown.no > act.no /\ shown.after = 0 /\ shown.quiet
  /\ banner.duration = 0 /\ ~banner.isVisible
  /\ banner.title = "t2"

\* ------------------------------- client code between runs of initializeRNApp
\* client code that runs while no call of initializeRNApp is in progress and
\* reaches the info service with getInfoService()
BetweenRuns ==
  /\ domain = "app"
  /\ pc \in Finished
  /\ handle["info"] # 0
  /\ UNCHANGED <<regVars, native, initialized, currentTheme, isOnlineState,
                 fetchPending, envVars, appVars>>

\* a component mounts: getInfoService().subscribe(listener)
SubscribeBetweenRuns ==
  /\ BetweenRuns
  /\ \E l \in Listeners :
       /\ Subscribed("info", handle["info"], l)
       /\ last' = Op("subscribe", "info", handle["info"], 0, FALSE, << >>,
                     {<<handle["info"], l>>})
  /\ UNCHANGED <<isVisible, dismissTimeoutId>>

\* getInfoService().show(title, text, type, interval)
ShowBetweenRuns ==
  /\ BetweenRuns
  /\ \E interval \in Intervals :
       /\ isVisible' = [isVisible EXCEPT ![handle["info"]] = TRUE]
       /\ dismissTimeoutId' =
            [dismissTimeoutId EXCEPT ![handle["info"]] = DismissAfter(interval) > 0]
       /\ last' = Op("show", "info", handle["info"], 0, FALSE, << >>,
                     Pairs("info", handle["info"]))
  /\ UNCHANGED <<listeners, stale>>

SpecAppKeep == AppInit /\ [][AppNext \/ SubscribeBetweenRuns \/ ShowBetweenRuns]_vars

\* a statement of initializeRNApp runs
RunStep == runNo' # runNo \/ pc' # pc

\* C39: without a reset, no statement of a later run of initializeRNApp
\* replaces the info service or the analytics wrapper once a run installed
\* them: the handles keep their instances, a run that resolves returns the
\* wrapper the previous resolved run returned, and the listeners, the
\* visibility and the pending auto-dismiss timer of the info service are
\* left as they were.
C39_RunsKeepInstances ==
  [][RunStep =>
       /\ \A d \in {"info", "analytics"} : handle[d] # 0 => handle'[d] = handle[d]
       /\ listeners'["info"] = listeners["info"]
       /\ isVisible' = isVisible /\ dismissTimeoutId' = dismissTimeoutId
       /\ pc' = "resolved" =>
            /\ outcome'.value = handle'["analytics"] /\ handle'["info"] # 0
            /\ prev'.status = "resolved" => outcome'.value = prev'.value
    ]_vars

C39_Witness ==
  /\ runNo = 2 /\ pc = "resolved"
  /\ prev.status = "resolved" /\ prev.value = outcome.value
  /\ handle["info"] = 1 /\ nextId["info"] = 1
  /\ listeners["info"][1] = {"cb"}
  /\ isVisible[1] /\ dismissTimeoutId[1]

====
